---- MODULE Spec2Model ----
(***************************************************************************)
(* State-machine model of monkeyfs: the task-local activation cell         *)
(* (context.py, patching/install.py), the virtual file-descriptor table    *)
(* (patching/fdtable.py, patching/patches.py) and the in-memory backend    *)
(* VirtualFS (virtual.py).                                                 *)
(*                                                                         *)
(* A path string is the record [abs, comps]: abs says whether the string   *)
(* starts with "/", comps are its "/"-separated components, which may be   *)
(* names, "." or "..".  "/f" is [TRUE, <<"f">>], "./f" is                  *)
(* [FALSE, <<".", "f">>], "" is [FALSE, <<>>], "/" is [TRUE, <<>>].        *)
(***************************************************************************)
EXTENDS Integers, Sequences, FiniteSets, TLC

\* ------------------------------------------------------------------------
\* Bounds of the model
\* ------------------------------------------------------------------------
\* largest value of the wall clock (timestamps are 0..MaxClock)
MaxClock == 1
\* longest content a caller passes to one write
MaxLen == 2
\* number of bytes that stand for one mebibyte of the cap
UnitBytes == 2

\* ------------------------------------------------------------------------
\* Strings as component sequences
\* ------------------------------------------------------------------------
P(a, c) == [abs |-> a, comps |-> c]

Root == P(TRUE, <<>>)
EmptyStr == P(FALSE, <<>>)
DotStr == P(FALSE, <<".">>)

Front(s) == SubSeq(s, 1, Len(s) - 1)
Last(s) == s[Len(s)]

\* str.lstrip("/") of a string that has no empty components
LStrip(p) == P(FALSE, p.comps)

\* "/" + s.lstrip("/")
Slash(p) == P(TRUE, p.comps)

\* posixpath.normpath: drops ".", folds "..", keeps a leading "..", and
\* returns "." for an empty result
RECURSIVE NormComps(_, _, _)
NormComps(a, cs, acc) ==
    IF cs = <<>> THEN acc
    ELSE LET c == Head(cs) IN
         IF c = "." THEN NormComps(a, Tail(cs), acc)
         ELSE IF \/ c # ".."
                 \/ (~a /\ acc = <<>>)
                 \/ (acc # <<>> /\ Last(acc) = "..")
              THEN NormComps(a, Tail(cs), Append(acc, c))
              ELSE IF acc # <<>>
                   THEN NormComps(a, Tail(cs), Front(acc))
                   ELSE NormComps(a, Tail(cs), acc)

normpath(p) ==
    LET cs == NormComps(p.abs, p.comps, <<>>) IN
    IF ~p.abs /\ cs = <<>> THEN DotStr ELSE P(p.abs, cs)

\* VirtualFS._normalize_path
normalize_path(p) ==
    IF p = EmptyStr \/ p = DotStr \/ p = Root THEN Root
    ELSE LET q == normpath(p) IN
         IF q.abs THEN (IF q.comps = <<>> THEN Root ELSE LStrip(q)) ELSE q

\* ------------------------------------------------------------------------
\* VirtualFS (virtual.py).  A VirtualFS value is the record
\*   files    : state key (the normalized path it encodes) -> content
\*   meta     : metadata key (a string, normalized or not) -> FileMetadata
\*   cwd      : the string under CWD_KEY ("/" when absent)
\*   dirCache : _dir_cache, [valid, dirs]; valid = FALSE is None
\*   curSize  : _current_size, NoSize is None
\*   maxSize  : _max_size_bytes, NoSize is None
\* Every operation returns [v, err]: the VirtualFS after the call and "ok"
\* or the exception it raised.
\* ------------------------------------------------------------------------
NoSize == -1
NoCache == [valid |-> FALSE, dirs |-> {}]
EmptyFn == [x \in {} |-> x]

\* the value of an expression, bound once: The({body : x \in {e}}) is
\* LET x == e IN body with e evaluated a single time
The(S) == CHOOSE x \in S : TRUE

Ok(v) == [v |-> v, err |-> "ok"]
Raise(v, e) == [v |-> v, err |-> e]

FileMetadata(size, created, modified, isdir) ==
    [size |-> size, created_at |-> created, modified_at |-> modified,
     is_dir |-> isdir]

Without(f, k) == [x \in DOMAIN f \ {k} |-> f[x]]

getcwd(v) == v.cwd

resolve_path(v, p) ==
    IF p.abs THEN normalize_path(p)
    ELSE normalize_path(P(TRUE, getcwd(v).comps \o p.comps))

_encode_path(v, p) == normalize_path(resolve_path(v, p))

\* the proper prefixes of every stored path, plus "" and "."
ComputeDirCache(files) ==
    {EmptyStr, DotStr} \cup
    UNION {{P(FALSE, SubSeq(k.comps, 1, i)) : i \in 0..(Len(k.comps) - 1)} :
              k \in DOMAIN files}

_ensure_dir_cache(v) ==
    IF v.dirCache.valid THEN v
    ELSE [v EXCEPT !.dirCache =
             [valid |-> TRUE, dirs |-> ComputeDirCache(v.files)]]

\* "normalized in cache or (normalized + '/') in cache"
InDirCache(v, n) == n \in _ensure_dir_cache(v).dirCache.dirs

ExplicitDir(v, n) == n \in DOMAIN v.meta /\ v.meta[n].is_dir

isfile(v, p) == _encode_path(v, p) \in DOMAIN v.files

\* isdir: the answer, and the VirtualFS after the call (the cache is filled
\* when the lookup reaches it)
IsDirCached(v, p) ==
    LET n == normalize_path(resolve_path(v, p)) IN
    ~(n = Root \/ n = EmptyStr \/ ExplicitDir(v, n))

isdir(v, p) ==
    LET n == normalize_path(resolve_path(v, p)) IN
    \/ n = Root
    \/ n = EmptyStr
    \/ ExplicitDir(v, n)
    \/ InDirCache(v, n)

isdirV(v, p) == IF IsDirCached(v, p) THEN _ensure_dir_cache(v) ELSE v

ExistsCached(v, p) ==
    LET n == normalize_path(resolve_path(v, p)) IN
    ~(isfile(v, p) \/ ExplicitDir(v, n))

exists(v, p) ==
    LET n == normalize_path(resolve_path(v, p)) IN
    \/ isfile(v, p)
    \/ ExplicitDir(v, n)
    \/ InDirCache(v, IF n = Root THEN EmptyStr ELSE n)

existsV(v, p) == IF ExistsCached(v, p) THEN _ensure_dir_cache(v) ELSE v

\* read: the exception, and the content when there is none
readErr(v, p) ==
    IF _encode_path(v, p) \in DOMAIN v.files THEN "ok" ELSE "FileNotFoundError"

read(v, p) == v.files[_encode_path(v, p)]

RECURSIVE SumSizes(_, _)
SumSizes(meta, keys) ==
    IF keys = {} THEN 0
    ELSE LET k == CHOOSE x \in keys : TRUE IN
         (IF meta[k].is_dir THEN 0 ELSE meta[k].size)
             + SumSizes(meta, keys \ {k})

_get_current_size(v) ==
    IF v.curSize # NoSize THEN v
    ELSE [v EXCEPT !.curSize = SumSizes(v.meta, DOMAIN v.meta)]

_check_size_limit(v, p, new_content_size) ==
    IF v.maxSize = NoSize THEN Ok(v)
    ELSE LET normalized == normalize_path(p) IN
         The({
           IF v1.curSize
                - (IF normalized \in DOMAIN v1.meta
                   THEN v1.meta[normalized].size ELSE 0)
                + new_content_size > v1.maxSize
           THEN Raise(v1, "SizeLimit") ELSE Ok(v1)
         : v1 \in {_get_current_size(v)}})

_update_file_metadata(v, p, size, is_new, now) ==
    LET path == IF is_new THEN normalize_path(p) ELSE p IN
    IF is_new \/ path \notin DOMAIN v.meta
    THEN [v EXCEPT !.meta =
             (path :> FileMetadata(size, now, now, FALSE)) @@ v.meta]
    ELSE [v EXCEPT !.meta =
             (path :> FileMetadata(size, v.meta[path].created_at, now, FALSE))
                 @@ v.meta]

mkdir(v, p, exist_ok, now) ==
    LET path == resolve_path(v, p)
        normalized == normalize_path(path)
        parent == P(TRUE, Front(normalized.comps))
        hasParent == Len(normalized.comps) > 1
    IN The({
         IF hasParent /\ ~isdir(v, parent) THEN Raise(v1, "FileNotFoundError")
         ELSE IF isfile(v1, path) THEN Raise(v1, "FileExistsError")
         ELSE The({
                IF isdir(v1, path)
                THEN (IF exist_ok THEN Ok(v2)
                      ELSE Raise(v2, "FileExistsError"))
                ELSE Ok([v2 EXCEPT
                            !.meta = (normalized :>
                                        FileMetadata(0, now, now, TRUE)) @@ @,
                            !.dirCache = NoCache])
              : v2 \in {isdirV(v1, path)}})
       : v1 \in {IF hasParent THEN isdirV(v, parent) ELSE v}})

\* the loop of makedirs over parts[: i + 1]
RECURSIVE makedirsLoop(_, _, _, _)
makedirsLoop(v, parts, i, now) ==
    IF i > Len(parts) THEN Ok(v)
    ELSE LET dir_path == P(TRUE, SubSeq(parts, 1, i)) IN
         IF isfile(v, dir_path) THEN Raise(v, "FileExistsError")
         ELSE The({
                IF isdir(v, dir_path) THEN makedirsLoop(v1, parts, i + 1, now)
                ELSE The({
                       IF r.err # "ok" THEN r
                       ELSE makedirsLoop(r.v, parts, i + 1, now)
                     : r \in {mkdir(v1, dir_path, TRUE, now)}})
              : v1 \in {isdirV(v, dir_path)}})

makedirs(v, p, now) ==
    LET path == resolve_path(v, p) IN
    IF path.comps = <<>>
    THEN (IF isfile(v, Root) THEN Raise(v, "FileExistsError") ELSE Ok(v))
    ELSE makedirsLoop(v, path.comps, 1, now)

\* write, from the size check on: v is the VirtualFS after the parent
\* directories were made
writeContent(v, p, content, mode, now) ==
    LET key == _encode_path(v, p)
        full == IF mode = "a" /\ key \in DOMAIN v.files
                THEN v.files[key] \o content ELSE content
    IN IF mode \notin {"a", "w"} THEN Raise(v, "ValueError")
       ELSE The({
              IF r.err # "ok" THEN r
              ELSE The({
                     Ok([v5 EXCEPT !.dirCache = NoCache, !.curSize = NoSize])
                   : v5 \in {_update_file_metadata(
                                [r.v EXCEPT !.files = (key :> full) @@ @],
                                p, Len(full), key \notin DOMAIN r.v.files,
                                now)}})
            : r \in {_check_size_limit(v, p, Len(full))}})

write(v, p, content, mode, now) ==
    LET normalized == normalize_path(resolve_path(v, p))
        parent == P(TRUE, Front(normalized.comps))
        hasParent == Len(normalized.comps) > 1
    IN The({
         The({
           IF r1.err # "ok" THEN r1
           ELSE writeContent(r1.v, p, content, mode, now)
         : r1 \in {IF hasParent /\ ~isdir(v, parent)
                   THEN makedirs(v1, parent, now) ELSE Ok(v1)}})
       : v1 \in {IF hasParent THEN isdirV(v, parent) ELSE v}})

remove(v, p) ==
    LET key == _encode_path(v, p) IN
    IF key \notin DOMAIN v.files THEN Raise(v, "FileNotFoundError")
    ELSE Ok([v EXCEPT !.files = Without(@, key),
                      !.meta = Without(@, normalize_path(p)),
                      !.dirCache = NoCache,
                      !.curSize = NoSize])

link(v, src, dst, now) ==
    IF readErr(v, src) # "ok" THEN Raise(v, readErr(v, src))
    ELSE write(v, dst, read(v, src), "w", now)

truncate(v, p, length, now) ==
    IF readErr(v, p) # "ok" THEN Raise(v, readErr(v, p))
    ELSE The({
           write(v, p, SubSeq(content, 1,
                              IF length < Len(content) THEN length
                              ELSE Len(content)), "w", now)
         : content \in {read(v, p)}})

chdir(v, p) ==
    LET absolute == Slash(resolve_path(v, p)) IN
    The({
      IF ~isdir(v, absolute) THEN Raise(v1, "FileNotFoundError")
      ELSE Ok([v1 EXCEPT !.cwd = absolute])
    : v1 \in {isdirV(v, absolute)}})

\* stat: the exception, and the FileMetadata when there is none
statErr(v, p) ==
    IF isfile(v, p)
    THEN (IF normalize_path(p) \in DOMAIN v.meta THEN "ok" ELSE "KeyError")
    ELSE IF isdir(v, p) THEN "ok" ELSE "FileNotFoundError"

stat(v, p, now) ==
    IF normalize_path(p) \in DOMAIN v.meta THEN v.meta[normalize_path(p)]
    ELSE FileMetadata(0, now, now, TRUE)

\* s.startswith(prefix + "/") for two strings without a leading slash
Under(k, n) ==
    /\ ~k.abs
    /\ Len(k.comps) > Len(n.comps)
    /\ SubSeq(k.comps, 1, Len(n.comps)) = n.comps

\* dst_norm + path[len(src_norm):]
Moved(k, src_norm, dst_norm) ==
    P(FALSE, dst_norm.comps \o
             SubSeq(k.comps, Len(src_norm.comps) + 1, Len(k.comps)))

\* The directory branch of rename is modelled for a source and a destination
\* that are not the root and do not contain one another (the code then moves
\* the keys in the store's iteration order)
DirRenameModelled(v, src, dst) ==
    LET s == normalize_path(resolve_path(v, src))
        d == normalize_path(resolve_path(v, dst))
    IN /\ s # Root /\ d # Root
       /\ s # d /\ ~Under(s, d) /\ ~Under(d, s)

\* f with every key at or under src_norm moved to its place under dst_norm
MoveKeys(f, src_norm, dst_norm) ==
    LET moving == {k \in DOMAIN f : k = src_norm \/ Under(k, src_norm)} IN
    [k \in (DOMAIN f \ moving)
           \cup {Moved(m, src_norm, dst_norm) : m \in moving} |->
        IF \E m \in moving : Moved(m, src_norm, dst_norm) = k
        THEN f[CHOOSE m \in moving : Moved(m, src_norm, dst_norm) = k]
        ELSE f[k]]

renameDir(v, src_norm, dst_norm) ==
    Ok([v EXCEPT !.files = MoveKeys(@, src_norm, dst_norm),
                 !.meta = MoveKeys(@, src_norm, dst_norm),
                 !.dirCache = NoCache])

rename(v, src, dst, now) ==
    LET src_norm == normalize_path(resolve_path(v, src))
        dst_norm == normalize_path(resolve_path(v, dst))
    IN IF isfile(v, src)
       THEN The({
              IF r.err # "ok" THEN r
              ELSE IF src_norm \notin DOMAIN v.meta THEN remove(r.v, src)
              ELSE IF dst_norm \notin DOMAIN r.v.meta
                   THEN Raise(r.v, "KeyError")
              ELSE The({ remove(v3, src)
                       : v3 \in {[r.v EXCEPT !.meta[dst_norm] =
                                    FileMetadata(@.size,
                                                 v.meta[src_norm].created_at,
                                                 @.modified_at, FALSE)]}})
            : r \in {write(v, dst, read(v, src), "w", now)}})
       ELSE The({
              IF isdir(v, src) THEN renameDir(v1, src_norm, dst_norm)
              ELSE Raise(v1, "FileNotFoundError")
            : v1 \in {isdirV(v, src)}})

\* write_many over the dict's items in insertion order: files is a sequence
\* of <<path, content, type(content).__name__>> with distinct path strings
\* (two of them may spell the same virtual path)
WriteManyTypeError(files) ==
    \E i \in 1..Len(files) : files[i][3] # "bytes"

RECURSIVE WriteManyTotal(_, _, _)
WriteManyTotal(v, files, total) ==
    IF files = <<>> THEN total
    ELSE LET normalized == normalize_path(Head(files)[1])
             existing_size == IF normalized \in DOMAIN v.meta
                              THEN v.meta[normalized].size ELSE 0
         IN WriteManyTotal(v, Tail(files),
                           total - existing_size + Len(Head(files)[2]))

RECURSIVE WriteManyLoop(_, _, _)
WriteManyLoop(v, files, now) ==
    IF files = <<>> THEN v
    ELSE LET path == Head(files)[1]
             content == Head(files)[2]
             key == _encode_path(v, path)
         IN The({ WriteManyLoop(v1, Tail(files), now)
                : v1 \in {_update_file_metadata(
                             [v EXCEPT !.files = (key :> content) @@ @],
                             path, Len(content), key \notin DOMAIN v.files,
                             now)}})

\* write_many if it were a loop of write calls: it stops at the first call
\* that raises and keeps what the calls before it stored
RECURSIVE write_each(_, _, _)
write_each(v, files, now) ==
    IF files = <<>> THEN Ok(v)
    ELSE IF Head(files)[3] # "bytes" THEN Raise(v, "TypeError")
    ELSE The({
           IF r.err # "ok" THEN r ELSE write_each(r.v, Tail(files), now)
         : r \in {write(v, Head(files)[1], Head(files)[2], "w", now)}})

write_many(v, files, now) ==
    IF WriteManyTypeError(files) THEN Raise(v, "TypeError")
    ELSE The({
      IF v.maxSize # NoSize
         /\ WriteManyTotal(v1, files, v1.curSize) > v1.maxSize
      THEN Raise(v1, "SizeLimit")
      ELSE The({ Ok([v2 EXCEPT !.dirCache = NoCache, !.curSize = NoSize])
               : v2 \in {WriteManyLoop(v1, files, now)}})
    : v1 \in {IF v.maxSize = NoSize THEN v ELSE _get_current_size(v)}})

\* remove_many: remove, path by path, up to the first one that raises
RECURSIVE remove_many(_, _)
remove_many(v, paths) ==
    IF paths = <<>> THEN Ok(v)
    ELSE The({
           IF r.err # "ok" THEN r ELSE remove_many(r.v, Tail(paths))
         : r \in {remove(v, Head(paths))}})

\* VirtualFS.open(path, "w") followed by VirtualFile.write(content) and
\* VirtualFile.close(): open checks that the parent is a directory, close
\* hands the buffer to VirtualFS.write
openWrite(v, p, content, now) ==
    LET normalized == normalize_path(resolve_path(v, p))
        parent == P(TRUE, Front(normalized.comps))
        hasParent == Len(normalized.comps) > 1
    IN The({
         IF hasParent /\ ~isdir(v, parent) THEN Raise(v1, "FileNotFoundError")
         ELSE write(v1, p, content, "w", now)
       : v1 \in {IF hasParent THEN isdirV(v, parent) ELSE v}})

\* ------------------------------------------------------------------------
\* io.BytesIO, the buffer of a virtual fd: the bytes and the position
\* ------------------------------------------------------------------------
Min(a, b) == IF a < b THEN a ELSE b
Max(a, b) == IF a > b THEN a ELSE b

\* BytesIO.write(data) at position pos: overwrites, extends, and pads with
\* zero bytes when pos is beyond the end
bufWrite(buf, pos, data) ==
    LET padded == buf \o [i \in 1..(pos - Len(buf)) |-> 0] IN
    SubSeq(padded, 1, pos) \o data
        \o SubSeq(padded, pos + Len(data) + 1, Len(padded))

\* BytesIO.read(n)
bufRead(buf, pos, n) == SubSeq(buf, pos + 1, Min(Len(buf), pos + n))

\* BytesIO.seek(offset, whence): the new position, -1 for ValueError
bufSeek(buf, pos, offset, whence) ==
    IF whence = 0 THEN (IF offset < 0 THEN -1 ELSE offset)
    ELSE IF whence = 1 THEN Max(0, pos + offset)
    ELSE Max(0, Len(buf) + offset)

\* ------------------------------------------------------------------------
\* VirtualFDTable.allocate up to the lock (patching/fdtable.py).  Open flags
\* are the set of their names, one of them the access mode.
\* ------------------------------------------------------------------------
VirtualFD(path, f, buf, pos, flags) ==
    [path |-> path, fs |-> f, buffer |-> buf, pos |-> pos, flags |-> flags,
     writable |-> ("O_WRONLY" \in flags \/ "O_RDWR" \in flags),
     readable |-> ("O_RDONLY" \in flags \/ "O_RDWR" \in flags)]

\* os.path.dirname
dirname(p) == IF p.comps = <<>> THEN p ELSE P(p.abs, Front(p.comps))

\* "O_CREAT on new file: register it in VFS"
allocateCreate(v, resolved, now) ==
    LET parent == dirname(resolved) IN
    The({
      IF r.err # "ok" THEN r ELSE write(r.v, resolved, <<>>, "w", now)
    : r \in {IF parent # EmptyStr /\ parent # Root
             THEN makedirs(v, parent, now) ELSE Ok(v)}})

\* the part of allocate before the lock: [v, err, vfd], v the VirtualFS
\* after it, vfd the VirtualFD the table will get (f names the VirtualFS)
allocate(v, f, path, flags, now) ==
    LET resolved == resolve_path(v, path)
        file_exists == exists(v, resolved)
        load == file_exists /\ "O_TRUNC" \notin flags
                    /\ readErr(v, resolved) = "ok"
        buf == IF load THEN read(v, resolved) ELSE <<>>
        pos == IF load /\ "O_APPEND" \in flags THEN Len(buf) ELSE 0
        vfd == VirtualFD(resolved, f, buf, pos, flags)
    IN The({
         IF "O_CREAT" \in flags /\ "O_EXCL" \in flags /\ file_exists
         THEN [v |-> v1, err |-> "FileExistsError", vfd |-> vfd]
         ELSE IF "O_CREAT" \notin flags /\ ~file_exists
         THEN [v |-> v1, err |-> "FileNotFoundError", vfd |-> vfd]
         ELSE IF "O_CREAT" \in flags /\ ~file_exists
         THEN The({ [v |-> r.v, err |-> r.err, vfd |-> vfd]
                  : r \in {allocateCreate(v1, resolved, now)}})
         ELSE [v |-> v1, err |-> "ok", vfd |-> vfd]
       : v1 \in {existsV(v, resolved)}})

\* ------------------------------------------------------------------------
\* State
\* ------------------------------------------------------------------------
\* VirtualFDTable._BASE_FD
_BASE_FD == 10000
\* deepest nesting of scopes in one task
MaxScopes == 2
\* most virtual fds the table hands out in one run
MaxFds == 2
Tasks == {1, 2}
FsIds == {1, 2}
\* the value of the activation cell that stands for None
NoFs == 0

VARIABLES
    fs,           \* FsIds -> VirtualFS: the backends the tasks activate
    clock,        \* the wall clock _now_iso() reads
    host,         \* the host's real files, reached through _originals
    current,      \* Tasks -> FsIds or NoFs: current_fs in each task's context
    scopes,       \* Tasks -> the stack of scopes (patch / suspend) entered
    shutil_flag,  \* shutil's fast-path flags (process-wide)
    tempdir,      \* tempfile.tempdir (process-wide)
    next_fd,      \* VirtualFDTable._next_fd
    table,        \* VirtualFDTable._table: fd -> VirtualFD
    lock,         \* VirtualFDTable._lock: the task holding it, or 0
    pc,           \* Tasks -> where the task is inside allocate / close
    loc,          \* Tasks -> the locals of the call in progress
    in_safe_path_check,  \* Tasks -> _in_safe_path_check in the task's context
    in_vfs_operation,    \* Tasks -> _in_vfs_operation in the task's context
    frames,       \* Tasks -> the guarded calls in progress, innermost last
    fobj,         \* fd -> the unflushed bytes of the file object wrapping it
    fdlog,        \* every fd allocate has returned, in order, with what
                  \* happened to it
    disk,         \* the host's tree under "/": path -> directory, file or link
    ifs,          \* the IsolatedFS's state mapping: its cwd and its metadata
    installed,    \* install.py's _installed
    install_lock, \* install.py's _lock: the task holding it, or 0
    rebinds,      \* how many times _apply_patches has run
    defer,        \* Tasks -> _defer_commits in each task's context
    commits,      \* FsIds -> the calls of commit() on the backing store
    evt           \* what the last step did

vars == <<fs, clock, host, current, scopes, shutil_flag, tempdir,
          next_fd, table, lock, pc, loc, fobj, fdlog, disk, ifs, installed,
          install_lock, rebinds, defer, commits, in_safe_path_check,
          in_vfs_operation, frames, evt>>

ctxVars == <<current, scopes, shutil_flag, tempdir>>
fdVars == <<next_fd, table, lock, pc, loc, fobj, fdlog>>
isoVars == <<disk, ifs>>
instVars == <<installed, install_lock, rebinds>>
commitVars == <<defer, commits>>
flagVars == <<in_safe_path_check, in_vfs_operation, frames>>

\* VirtualFS(state={}, max_size_mb): max_size_mb * 1024 * 1024, None if None
NewVFS(max_size_mb) ==
    [files |-> EmptyFn, meta |-> EmptyFn, cwd |-> Root,
     dirCache |-> NoCache, curSize |-> NoSize,
     maxSize |-> IF max_size_mb = NoSize THEN NoSize
                 ELSE max_size_mb * UnitBytes]

\* what a step did: the operation, the task, the backend it reached (NoFs:
\* none, or the host), how it ended, and its path and bytes
Event(op, t, f, err, path, data) ==
    [op |-> op, t |-> t, f |-> f, err |-> err, path |-> path, data |-> data,
     fd |-> 0]

\* the same for a step on a file descriptor
FdEvent(op, t, f, err, path, data, fd) ==
    [op |-> op, t |-> t, f |-> f, err |-> err, path |-> path, data |-> data,
     fd |-> fd]

NoEvt == Event("init", 0, NoFs, "ok", Root, <<>>)
NoLoc == [op |-> "none"]

\* the nodes of the host's tree
Dir == [kind |-> "dir"]
File(data) == [kind |-> "file", data |-> data]
Link(target) == [kind |-> "link", target |-> target]

\* IsolatedFS.root, resolved: the host directory "/r"
IsoRoot == <<"r">>

\* a host that holds the root directory and nothing else
BareDisk == (<<>> :> Dir) @@ (IsoRoot :> Dir)

\* IsolatedFS(root, state={}): no CWD_KEY (getcwd answers "/") and no metadata
NewIFS == [cwd |-> Root, meta |-> EmptyFn]

\* the state this model starts from once install() has run
\* the two ContextVars of core.py have default=False, and no guarded call
\* is in progress
InitFlags ==
    /\ in_safe_path_check = [t \in Tasks |-> FALSE]
    /\ in_vfs_operation = [t \in Tasks |-> FALSE]
    /\ frames = [t \in Tasks |-> <<>>]

InitRest ==
    /\ InitFlags
    /\ disk = BareDisk
    /\ ifs = NewIFS
    /\ installed = TRUE
    /\ install_lock = 0
    /\ rebinds = 1
    /\ defer = [t \in Tasks |-> FALSE]
    /\ commits = [f \in FsIds |-> 0]

InitWith(caps) ==
    /\ InitRest
    /\ fs \in [FsIds -> {NewVFS(c) : c \in caps}]
    /\ clock = 0
    /\ host = {}
    /\ current = [t \in Tasks |-> NoFs]
    /\ scopes = [t \in Tasks |-> <<>>]
    /\ shutil_flag = TRUE
    /\ tempdir = "host"
    /\ next_fd = _BASE_FD
    /\ table = EmptyFn
    /\ lock = 0
    /\ pc = [t \in Tasks |-> "idle"]
    /\ loc = [t \in Tasks |-> NoLoc]
    /\ fobj = EmptyFn
    /\ fdlog = <<>>
    /\ evt = NoEvt

\* ------------------------------------------------------------------------
\* The activation cell and its scopes (context.py, patching/install.py)
\* ------------------------------------------------------------------------
\* what set() would do to a cell shared by all tasks (a module global)
CtxSetGlobal(cur, t, val) == [u \in DOMAIN cur |-> val]

\* current_fs is a ContextVar: set() changes the value in the calling task's
\* context only
CtxSet(cur, t, val) == [cur EXCEPT ![t] = val]

\* what current_fs.set(None) in place of reset(token) would do
CtxResetToNone(cur, t, token) == [cur EXCEPT ![t] = NoFs]

\* current_fs.reset(token): back to the value the token recorded
CtxReset(cur, t, token) == CtxSet(cur, t, token)

\* try: yield / finally: the clean-up runs whether or not the body raised
CleanupRuns(raised) == TRUE

Scope(kind, val, token, saved_shutil, saved_tempdir) ==
    [kind |-> kind, val |-> val, token |-> token,
     saved_shutil |-> saved_shutil, saved_tempdir |-> saved_tempdir]

\* with patch(fs): install(), run to its end, and the rest up to the yield
Patch(t, f) ==
    /\ pc[t] = "idle"
    /\ Len(scopes[t]) < MaxScopes
    /\ scopes' = [scopes EXCEPT ![t] =
           Append(@, Scope("patch", f, current[t], shutil_flag, tempdir))]
    /\ shutil_flag' = FALSE
    /\ tempdir' = "None"
    /\ current' = CtxSet(current, t, f)
    /\ evt' = Event("patch", t, f, "ok", Root, <<>>)
    /\ install_lock = 0
    /\ installed' = TRUE
    /\ rebinds' = IF installed THEN rebinds ELSE rebinds + 1
    /\ UNCHANGED <<flagVars, isoVars, install_lock, commitVars, fs, clock, host, fdVars>>

\* with suspend_fs_interception(): up to the yield
Suspend(t) ==
    /\ pc[t] = "idle"
    /\ Len(scopes[t]) < MaxScopes
    /\ scopes' = [scopes EXCEPT ![t] =
           Append(@, Scope("suspend", NoFs, current[t], shutil_flag, tempdir))]
    /\ current' = CtxSet(current, t, NoFs)
    /\ evt' = Event("suspend", t, NoFs, "ok", Root, <<>>)
    /\ UNCHANGED <<flagVars, isoVars, instVars, commitVars, fs, clock, host, shutil_flag, tempdir, fdVars>>

\* the innermost scope of t ends, its body having returned or raised; the
\* event records the cell's value from just before the scope was entered
ExitScope(t, raised) ==
    /\ pc[t] = "idle"
    /\ scopes[t] # <<>>
    /\ LET top == Last(scopes[t]) IN
       /\ scopes' = [scopes EXCEPT ![t] = Front(@)]
       /\ IF CleanupRuns(raised)
          THEN /\ current' = CtxReset(current, t, top.token)
               /\ IF top.kind = "patch"
                  THEN /\ tempdir' = top.saved_tempdir
                       /\ shutil_flag' = top.saved_shutil
                  ELSE UNCHANGED <<tempdir, shutil_flag>>
          ELSE UNCHANGED <<current, tempdir, shutil_flag>>
       /\ evt' = Event("exit", t, top.token,
                       IF raised THEN "raised" ELSE "ok", Root, <<>>)
    /\ UNCHANGED <<flagVars, isoVars, instVars, commitVars, fs, clock, host, fdVars>>

\* open(p, "w") ... write(c) ... close() through the wrapper _vfs_open: to
\* the task's active backend, or to the host when the cell is None
RoutedWrite(t, p, c) ==
    /\ pc[t] = "idle"
    /\ IF current[t] = NoFs
       THEN /\ host' = host \cup {p}
            /\ evt' = Event("rwrite", t, NoFs, "ok", p, c)
            /\ UNCHANGED fs
       ELSE \E r \in {openWrite(fs[current[t]], p, c, clock)} :
            /\ fs' = [fs EXCEPT ![current[t]] = r.v]
            /\ evt' = Event("rwrite", t, current[t], r.err, p, c)
            /\ UNCHANGED host
    /\ UNCHANGED <<flagVars, isoVars, instVars, commitVars, clock, ctxVars, fdVars>>

\* paths of the model, by spelling
pF == P(FALSE, <<"f">>)
pSlashF == P(TRUE, <<"f">>)
pDotF == P(FALSE, <<".", "f">>)
pDF == P(FALSE, <<"d", "f">>)
pSlashDF == P(TRUE, <<"d", "f">>)
pSlashD == P(TRUE, <<"d">>)

InitCtx == InitWith({NoSize})

NextCtx ==
    \/ \E t \in Tasks, f \in FsIds : Patch(t, f)
    \/ \E t \in Tasks : Suspend(t)
    \/ \E t \in Tasks, raised \in BOOLEAN : ExitScope(t, raised)
    \/ \E t \in Tasks : RoutedWrite(t, pF, <<t>>)

SpecCtx == InitCtx /\ [][NextCtx]_vars

\* the FS the innermost scope of t names: what a routed call of t must reach
Innermost(t) == IF scopes[t] = <<>> THEN NoFs ELSE Last(scopes[t]).val

\* C1: when a scope exits, by return or by exception, current() in that task
\* is the value it had just before the scope was entered; the scopes unwind
\* last-in first-out, so the cell always names the innermost scope still
\* open, and each open scope remembers the value of the scope around it.
C1_ScopeExitRestores ==
    /\ evt.op = "exit" => current[evt.t] = evt.f
    /\ \A t \in Tasks :
          /\ current[t] = Innermost(t)
          /\ \A i \in 1..Len(scopes[t]) :
                scopes[t][i].token =
                    IF i = 1 THEN NoFs ELSE scopes[t][i - 1].val

\* an inner scope was left by an exception and the cell is back on the FS of
\* the scope around it
C1_Witness ==
    /\ evt.op = "exit"
    /\ evt.err = "raised"
    /\ evt.f # NoFs
    /\ Len(scopes[evt.t]) = 1
    /\ current[evt.t] = evt.f

\* C2: a routed write of a task reaches the FS its own innermost scope names
\* and no other FS (nor the host), whatever the other tasks have activated;
\* a task entering or leaving a scope leaves current() of every other task
\* as it was.
C2_TaskIsolation ==
    [][/\ \A t \in Tasks :
             (evt'.op \in {"patch", "suspend", "exit"} /\ evt'.t # t)
                 => current'[t] = current[t]
       /\ evt'.op = "rwrite" =>
             /\ evt'.f = Innermost(evt'.t)
             /\ \A f \in FsIds \ {evt'.f} : fs'[f] = fs[f]
             /\ evt'.f # NoFs => host' = host
             /\ current' = current]_vars

\* both tasks are inside scopes on different FSs, and each FS holds the
\* bytes of its own task only
C2_Witness ==
    /\ evt.op = "rwrite"
    /\ \A t \in Tasks : current[t] # NoFs
    /\ current[1] # current[2]
    /\ \A t \in Tasks :
          LET files == fs[current[t]].files IN
          /\ files # EmptyFn
          /\ \A k \in DOMAIN files : files[k] = <<t>>

\* ------------------------------------------------------------------------
\* The virtual fd table and the os-level wrappers (patching/fdtable.py,
\* patching/patches.py)
\* ------------------------------------------------------------------------
\* entry to the critical section if it were not guarded by the lock
NoLock(l) == TRUE

\* "with self._lock:" is entered when no thread holds the lock
LockFree(l) == l = 0

\* the table if close read the entry with get() and left it in place
tableKeep(tbl, fd) == tbl

\* self._table.pop(fd, None): the table without fd
tablePop(tbl, fd) == Without(tbl, fd)

\* close if it flushed every fd, writable or not
FlushAlways(vfd) == TRUE

\* "if vfd.writable:" in close
ShouldFlush(vfd) == vfd.writable

\* the fds allocate has returned so far
Returned == {fdlog[i].fd : i \in 1..Len(fdlog)}

\* fdlog with the count under field c raised for fd
Count(log, fd, c) ==
    [i \in 1..Len(log) |->
        IF log[i].fd # fd THEN log[i]
        ELSE IF c = "pops" THEN [log[i] EXCEPT !.pops = @ + 1]
        ELSE [log[i] EXCEPT !.flushes = @ + 1]]

\* allocations begun and not yet returned
Allocating == {u \in Tasks : pc[u] \in {"alloc", "alloc_in"}}

\* _vfs_os_open(path, flags): with no active FS the host opens the path;
\* otherwise allocate runs up to its lock
OsOpen(t, p, flags) ==
    /\ pc[t] = "idle"
    /\ IF current[t] = NoFs
       THEN /\ host' = IF "O_CREAT" \in flags THEN host \cup {p} ELSE host
            /\ evt' = FdEvent("open", t, NoFs, "ok", p, <<>>, 0)
            /\ UNCHANGED <<fs, pc, loc>>
       ELSE /\ next_fd + Cardinality(Allocating) < _BASE_FD + MaxFds
            /\ \E r \in {allocate(fs[current[t]], current[t], p, flags, clock)} :
                  /\ fs' = [fs EXCEPT ![current[t]] = r.v]
                  /\ IF r.err = "ok"
                     THEN /\ pc' = [pc EXCEPT ![t] = "alloc"]
                          /\ loc' = [loc EXCEPT ![t] =
                                 [op |-> "alloc", fd |-> 0, vfd |-> r.vfd,
                                  opath |-> p, ocwd |-> fs[current[t]].cwd]]
                          /\ evt' = FdEvent("open_begin", t, current[t], "ok",
                                            p, <<>>, 0)
                     ELSE /\ evt' = FdEvent("open", t, current[t], r.err,
                                            p, <<>>, 0)
                          /\ UNCHANGED <<pc, loc>>
            /\ UNCHANGED host
    /\ UNCHANGED <<flagVars, isoVars, instVars, commitVars, clock, ctxVars, next_fd, table, lock, fobj, fdlog>>

\* allocate: "with self._lock: fd = self._next_fd"
AllocEnter(t) ==
    /\ pc[t] = "alloc"
    /\ LockFree(lock)
    /\ lock' = t
    /\ loc' = [loc EXCEPT ![t].fd = next_fd]
    /\ pc' = [pc EXCEPT ![t] = "alloc_in"]
    /\ evt' = FdEvent("alloc_in", t, loc[t].vfd.fs, "ok", loc[t].opath, <<>>,
                      next_fd)
    /\ UNCHANGED <<flagVars, isoVars, instVars, commitVars, fs, clock, host, ctxVars, next_fd, table, fobj, fdlog>>

\* allocate: "self._next_fd += 1; self._table[fd] = VirtualFD(...)", the
\* lock released, "return fd"
AllocExit(t) ==
    /\ pc[t] = "alloc_in"
    /\ next_fd' = next_fd + 1
    /\ table' = (loc[t].fd :> loc[t].vfd) @@ table
    /\ lock' = 0
    /\ fdlog' = Append(fdlog, [fd |-> loc[t].fd, t |-> t,
                               opath |-> loc[t].opath, ocwd |-> loc[t].ocwd,
                               writable |-> loc[t].vfd.writable,
                               pops |-> 0, flushes |-> 0])
    /\ pc' = [pc EXCEPT ![t] = "idle"]
    /\ loc' = [loc EXCEPT ![t] = NoLoc]
    /\ evt' = FdEvent("open", t, loc[t].vfd.fs, "ok", loc[t].opath, <<>>,
                      loc[t].fd)
    /\ UNCHANGED <<flagVars, isoVars, instVars, commitVars, fs, clock, host, ctxVars, fobj>>

\* _vfs_os_write(fd, data)
OsWrite(t, fd, data) ==
    /\ pc[t] = "idle"
    /\ IF fd \notin DOMAIN table \/ ~table[fd].writable
       THEN /\ evt' = FdEvent("write", t, NoFs, "EBADF", Root, data, fd)
            /\ UNCHANGED table
       ELSE /\ Len(bufWrite(table[fd].buffer, table[fd].pos, data)) <= MaxLen
            /\ table' = [table EXCEPT
                   ![fd].buffer = bufWrite(@, table[fd].pos, data),
                   ![fd].pos = @ + Len(data)]
            /\ evt' = FdEvent("write", t, table[fd].fs, "ok", table[fd].path,
                              data, fd)
    /\ UNCHANGED <<flagVars, isoVars, instVars, commitVars, fs, clock, host, ctxVars, next_fd, lock, pc, loc, fobj,
                   fdlog>>

\* _vfs_os_read(fd, n)
OsRead(t, fd, n) ==
    /\ pc[t] = "idle"
    /\ IF fd \notin DOMAIN table \/ ~table[fd].readable
       THEN /\ evt' = FdEvent("read", t, NoFs, "EBADF", Root, <<>>, fd)
            /\ UNCHANGED table
       ELSE /\ table' = [table EXCEPT
                   ![fd].pos = @ + Len(bufRead(table[fd].buffer, @, n))]
            /\ evt' = FdEvent("read", t, table[fd].fs, "ok", table[fd].path,
                              bufRead(table[fd].buffer, table[fd].pos, n), fd)
    /\ UNCHANGED <<flagVars, isoVars, instVars, commitVars, fs, clock, host, ctxVars, next_fd, lock, pc, loc, fobj,
                   fdlog>>

\* _vfs_os_lseek(fd, offset, whence)
OsLseek(t, fd, offset, whence) ==
    /\ pc[t] = "idle"
    /\ IF fd \notin DOMAIN table
       THEN /\ evt' = FdEvent("lseek", t, NoFs, "EBADF", Root, <<>>, fd)
            /\ UNCHANGED table
       ELSE \E np \in {bufSeek(table[fd].buffer, table[fd].pos, offset, whence)} :
            /\ table' = IF np < 0 THEN table
                        ELSE [table EXCEPT ![fd].pos = np]
            /\ evt' = FdEvent("lseek", t, table[fd].fs,
                              IF np < 0 THEN "ValueError" ELSE "ok",
                              table[fd].path, <<>>, fd)
    /\ UNCHANGED <<flagVars, isoVars, instVars, commitVars, fs, clock, host, ctxVars, next_fd, lock, pc, loc, fobj,
                   fdlog>>

\* _vfs_os_close(fd): "if _fd_table.is_virtual(fd)"; an fd the table does
\* not hold goes to the host's os.close, which fails with EBADF
OsClose(t, fd) ==
    /\ pc[t] = "idle"
    /\ IF fd \in DOMAIN table
       THEN /\ pc' = [pc EXCEPT ![t] = "close"]
            /\ loc' = [loc EXCEPT ![t] = [op |-> "close", fd |-> fd]]
            /\ evt' = FdEvent("close_begin", t, table[fd].fs, "ok",
                              table[fd].path, <<>>, fd)
       ELSE /\ evt' = FdEvent("close", t, NoFs, "EBADF", Root, <<>>, fd)
            /\ UNCHANGED <<pc, loc>>
    /\ UNCHANGED <<flagVars, isoVars, instVars, commitVars, fs, clock, host, ctxVars, next_fd, table, lock, fobj,
                   fdlog>>

\* close: "with self._lock: vfd = self._table.pop(fd, None)" and
\* "if vfd is None: raise OSError(EBADF)"
ClosePop(t) ==
    /\ pc[t] = "close"
    /\ LockFree(lock)
    /\ IF loc[t].fd \in DOMAIN table
       THEN /\ table' = tablePop(table, loc[t].fd)
            /\ pc' = [pc EXCEPT ![t] = "close_flush"]
            /\ loc' = [loc EXCEPT ![t] =
                   [op |-> "close", fd |-> loc[t].fd,
                    vfd |-> table[loc[t].fd]]]
            /\ fdlog' = Count(fdlog, loc[t].fd, "pops")
            /\ evt' = FdEvent("close_pop", t, table[loc[t].fd].fs, "ok",
                              table[loc[t].fd].path, <<>>, loc[t].fd)
       ELSE /\ pc' = [pc EXCEPT ![t] = "idle"]
            /\ loc' = [loc EXCEPT ![t] = NoLoc]
            /\ evt' = FdEvent("close", t, NoFs, "EBADF", Root, <<>>,
                              loc[t].fd)
            /\ UNCHANGED <<table, fdlog>>
    /\ UNCHANGED <<flagVars, isoVars, instVars, commitVars, fs, clock, host, ctxVars, next_fd, lock, fobj>>

\* close: "if vfd.writable: vfd.fs.write(vfd.path, content)"
CloseFlush(t) ==
    /\ pc[t] = "close_flush"
    /\ LET vfd == loc[t].vfd IN
       IF ShouldFlush(vfd)
       THEN \E r \in {write(fs[vfd.fs], vfd.path, vfd.buffer, "w", clock)} :
            /\ fs' = [fs EXCEPT ![vfd.fs] = r.v]
            /\ fdlog' = Count(fdlog, loc[t].fd, "flushes")
            /\ evt' = FdEvent("close", t, vfd.fs, r.err, vfd.path,
                              vfd.buffer, loc[t].fd)
       ELSE /\ evt' = FdEvent("close", t, vfd.fs, "ok", vfd.path,
                              vfd.buffer, loc[t].fd)
            /\ UNCHANGED <<fs, fdlog>>
    /\ pc' = [pc EXCEPT ![t] = "idle"]
    /\ loc' = [loc EXCEPT ![t] = NoLoc]
    /\ UNCHANGED <<flagVars, isoVars, instVars, commitVars, clock, host, ctxVars, next_fd, table, lock, fobj>>

\* open(fd, "wb") through _vfs_open: _wrap_virtual_fd puts an
\* io.BufferedWriter over a VirtualFDRawIO of the fd
Fdopen(t, fd) ==
    /\ pc[t] = "idle"
    /\ fd \notin DOMAIN fobj
    /\ IF fd \notin DOMAIN table
       THEN /\ evt' = FdEvent("fdopen", t, NoFs, "EBADF", Root, <<>>, fd)
            /\ UNCHANGED fobj
       ELSE IF ~table[fd].writable
       THEN /\ evt' = FdEvent("fdopen", t, table[fd].fs,
                              "UnsupportedOperation", table[fd].path, <<>>, fd)
            /\ UNCHANGED fobj
       ELSE /\ fobj' = (fd :> <<>>) @@ fobj
            /\ evt' = FdEvent("fdopen", t, table[fd].fs, "ok",
                              table[fd].path, <<>>, fd)
    /\ UNCHANGED <<flagVars, isoVars, instVars, commitVars, fs, clock, host, ctxVars, next_fd, table, lock, pc, loc,
                   fdlog>>

\* BufferedWriter.write(data): the bytes wait in the writer's own buffer
FileWrite(t, fd, data) ==
    /\ pc[t] = "idle"
    /\ fd \in DOMAIN fobj
    /\ Len(fobj[fd] \o data) <= MaxLen
    /\ fobj' = [fobj EXCEPT ![fd] = @ \o data]
    /\ evt' = FdEvent("fwrite", t, NoFs, "ok", Root, data, fd)
    /\ UNCHANGED <<flagVars, isoVars, instVars, commitVars, fs, clock, host, ctxVars, next_fd, table, lock, pc, loc,
                   fdlog>>

\* BufferedWriter.close(): flush through VirtualFDRawIO.write into the
\* fd's buffer, then VirtualFDRawIO.close: "if self._table.is_virtual(fd):
\* self._table.close(fd)"
FileClose(t, fd) ==
    /\ pc[t] = "idle"
    /\ fd \in DOMAIN fobj
    /\ fobj' = Without(fobj, fd)
    /\ IF fd \in DOMAIN table
       THEN /\ Len(bufWrite(table[fd].buffer, table[fd].pos, fobj[fd]))
                  <= MaxLen
            /\ table' = [table EXCEPT
                   ![fd].buffer = bufWrite(@, table[fd].pos, fobj[fd]),
                   ![fd].pos = @ + Len(fobj[fd])]
            /\ pc' = [pc EXCEPT ![t] = "close"]
            /\ loc' = [loc EXCEPT ![t] = [op |-> "close", fd |-> fd]]
            /\ evt' = FdEvent("close_begin", t, table[fd].fs, "ok",
                              table[fd].path, fobj[fd], fd)
       ELSE /\ evt' = FdEvent("fclose", t, NoFs, "ok", Root, fobj[fd], fd)
            /\ UNCHANGED <<table, pc, loc>>
    /\ UNCHANGED <<flagVars, isoVars, instVars, commitVars, fs, clock, host, ctxVars, next_fd, lock, fdlog>>

\* fs.chdir(p) on a VirtualFS, called on the object directly
Chdir(f, p) ==
    /\ \E r \in {chdir(fs[f], p)} :
          /\ fs' = [fs EXCEPT ![f] = r.v]
          /\ evt' = Event("chdir", 0, f, r.err, p, <<>>)
    /\ UNCHANGED <<flagVars, isoVars, instVars, commitVars, clock, host, ctxVars, fdVars>>

\* the flag sets os.open is called with
CreatWr == {"O_CREAT", "O_WRONLY"}
CreatExclWr == {"O_CREAT", "O_EXCL", "O_WRONLY"}
RdOnly == {"O_RDONLY"}

\* the fds task t got from os.open: the buffer of an fd is read, written and
\* wrapped by its owner only (callers do not race on one descriptor); any
\* task may close any fd
Owned(t) == {fdlog[i].fd : i \in {j \in 1..Len(fdlog) : fdlog[j].t = t}}

\* one task and every operation on its fds, one fd open at a time, on an
\* uncapped VirtualFS
InitFd == InitWith({NoSize})

NextFd ==
    \/ scopes[1] = <<>> /\ Patch(1, 1)
    \/ \E p \in {pF, pSlashDF}, flags \in {CreatWr, CreatExclWr, RdOnly} :
          table = EmptyFn /\ OsOpen(1, p, flags)
    \/ AllocEnter(1)
    \/ AllocExit(1)
    \/ \E fd \in Owned(1) : OsWrite(1, fd, <<1>>)
    \/ \E fd \in Owned(1) : OsRead(1, fd, 1)
    \/ \E fd \in Owned(1) : OsLseek(1, fd, 0, 0)
    \/ \E fd \in Returned : OsClose(1, fd)
    \/ ClosePop(1)
    \/ CloseFlush(1)
    \/ \E fd \in Owned(1) : Fdopen(1, fd)
    \/ \E fd \in Owned(1) : FileWrite(1, fd, <<1>>)
    \/ \E fd \in Owned(1) : FileClose(1, fd)
    \/ Chdir(1, pSlashD)

SpecFd == InitFd /\ [][NextFd]_vars

\* what fdlog holds about fd
LogOf(fd) == fdlog[CHOOSE i \in 1..Len(fdlog) : fdlog[i].fd = fd]

\* the files, the metadata and the cwd of every VirtualFS are the same
\* before and after the step
BackendUnchanged ==
    \A f \in FsIds :
       /\ fs'[f].files = fs[f].files
       /\ fs'[f].meta = fs[f].meta
       /\ fs'[f].cwd = fs[f].cwd

\* C3: once a virtual fd opened for writing on a path has been written and
\* closed, reading that path from the backend (the working directory being
\* the one the fd was opened under) returns the fd's final buffer.
C3_FdRoundTrip ==
    (/\ evt.op = "close"
     /\ evt.err = "ok"
     /\ evt.f # NoFs
     /\ LogOf(evt.fd).writable
     /\ fs[evt.f].cwd = LogOf(evt.fd).ocwd)
    => /\ readErr(fs[evt.f], LogOf(evt.fd).opath) = "ok"
       /\ read(fs[evt.f], LogOf(evt.fd).opath) = evt.data

\* C6: an os.open with O_CREAT|O_EXCL on an existing path fails with
\* FileExistsError, one without O_CREAT on a missing path fails with
\* FileNotFoundError, and an os.open that fails leaves no call in progress,
\* the table and the counter as they were and the backend unchanged.
C6_FailedOpenNoEffect ==
    [][\A t \in Tasks, p \in {pF, pSlashDF},
          flags \in {CreatWr, CreatExclWr, RdOnly} :
          (current[t] # NoFs /\ OsOpen(t, p, flags)) =>
             /\ ("O_EXCL" \in flags /\ exists(fs[current[t]], p))
                    => evt'.err = "FileExistsError"
             /\ ("O_CREAT" \notin flags /\ ~exists(fs[current[t]], p))
                    => evt'.err = "FileNotFoundError"
             /\ (\/ "O_EXCL" \in flags /\ exists(fs[current[t]], p)
                 \/ "O_CREAT" \notin flags /\ ~exists(fs[current[t]], p)
                 \/ evt'.err # "ok")
                    => /\ pc' = pc
                       /\ table' = table
                       /\ next_fd' = next_fd
                       /\ BackendUnchanged]_vars

\* C7: closing a virtual fd that was opened read-only makes no write to the
\* backend: no step of the close changes the files, the metadata or the cwd
\* of any VirtualFS, and the close never calls the backend's write.
C7_ReadOnlyCloseNoWrite ==
    /\ [](\A i \in 1..Len(fdlog) : ~fdlog[i].writable => fdlog[i].flushes = 0)
    /\ [][(/\ evt'.op \in {"close_begin", "close_pop", "close"}
           /\ evt'.fd \in Returned
           /\ ~LogOf(evt'.fd).writable) => fs' = fs]_vars

\* a read-only fd that loaded the file's bytes, was read from, and was
\* closed without error
C7_Witness ==
    /\ evt.op = "close"
    /\ evt.err = "ok"
    /\ evt.f # NoFs
    /\ ~LogOf(evt.fd).writable
    /\ evt.data # <<>>
    /\ readErr(fs[evt.f], evt.path) = "ok"
    /\ read(fs[evt.f], evt.path) = evt.data

\* two tasks that open, write and close fds of one VirtualFS concurrently;
\* the VirtualFS is uncapped or has a cap of zero
InitFdRace ==
    /\ InitWith({NoSize, 0})
    /\ fs[2].maxSize = NoSize

NextFdRace ==
    \/ \E t \in Tasks : scopes[t] = <<>> /\ Patch(t, 1)
    \/ \E t \in Tasks, flags \in {CreatWr, RdOnly} : OsOpen(t, pF, flags)
    \/ \E t \in Tasks : AllocEnter(t)
    \/ \E t \in Tasks : AllocExit(t)
    \/ \E t \in Tasks : \E fd \in Owned(t) : OsWrite(t, fd, <<t>>)
    \/ \E t \in Tasks, fd \in Returned : OsClose(t, fd)
    \/ \E t \in Tasks : ClosePop(t)
    \/ \E t \in Tasks : CloseFlush(t)

SpecFdRace == InitFdRace /\ [][NextFdRace]_vars

\* C4: every fd the table returns is at least 10000 and differs from every
\* fd it has returned before, closed or not, under any interleaving of
\* allocations and closes; the next-fd counter never decreases.
C4_FdsUniqueMonotonic ==
    /\ [](\A i \in 1..Len(fdlog) :
             /\ fdlog[i].fd >= _BASE_FD
             /\ fdlog[i].fd < next_fd
             /\ \A j \in 1..Len(fdlog) : j # i => fdlog[j].fd # fdlog[i].fd)
    /\ [][next_fd' >= next_fd]_vars

\* the second fd has just been returned, to another task than the first,
\* after the first fd was closed
C4_Witness ==
    /\ Len(fdlog) = 2
    /\ evt.op = "open"
    /\ evt.err = "ok"
    /\ evt.fd = fdlog[2].fd
    /\ fdlog[1].t # fdlog[2].t
    /\ fdlog[1].pops = 1

\* C5 as stated: of the closes of one fd, the one that gets the fd succeeds
\* and persists the buffer once; every other fails with EBADF and writes
\* nothing.
C5_ExactlyOneCloseSucceeds ==
    /\ \A i \in 1..Len(fdlog) : fdlog[i].pops <= 1 /\ fdlog[i].flushes <= 1
    /\ evt.op = "close" =>
          IF evt.f = NoFs THEN evt.err = "EBADF"
          ELSE evt.err = "ok" /\ LogOf(evt.fd).flushes = 1

\* C5 amended: of the closes of one fd, at most one gets the fd from the
\* table; that close calls the backend's write once if the fd is writable
\* and not at all otherwise, and fails only if that write raises; every
\* other close fails with EBADF and calls no backend write.
C5_OneClosePersists ==
    /\ [](/\ \A i \in 1..Len(fdlog) :
                /\ fdlog[i].pops <= 1
                /\ fdlog[i].flushes <= fdlog[i].pops
                /\ fdlog[i].flushes = 1 => fdlog[i].writable
          /\ evt.op = "close" =>
                IF evt.f = NoFs THEN evt.err = "EBADF"
                ELSE /\ LogOf(evt.fd).pops = 1
                     /\ LogOf(evt.fd).flushes =
                            IF LogOf(evt.fd).writable THEN 1 ELSE 0
                     /\ ~LogOf(evt.fd).writable => evt.err = "ok")
    /\ [][(evt'.op = "close" /\ evt'.f = NoFs)
             => fs' = fs /\ fdlog' = fdlog]_vars

\* one close of the fd has persisted its bytes while a close by the other
\* task, already past the is_virtual test, is about to find the fd gone
C5_Witness ==
    /\ evt.op = "close"
    /\ evt.err = "ok"
    /\ evt.f # NoFs
    /\ evt.data # <<>>
    /\ read(fs[evt.f], evt.path) = evt.data
    /\ \E u \in Tasks :
          /\ u # evt.t
          /\ pc[u] = "close"
          /\ loc[u].fd = evt.fd

\* ------------------------------------------------------------------------
\* VirtualFS called directly (virtual.py)
\* ------------------------------------------------------------------------
\* the wall clock moves on
Tick ==
    /\ clock < MaxClock
    /\ clock' = clock + 1
    /\ evt' = Event("tick", 0, NoFs, "ok", Root, <<>>)
    /\ UNCHANGED <<flagVars, isoVars, instVars, commitVars, fs, host, ctxVars, fdVars>>

\* fs.write(p, c, mode)
VfsWrite(f, p, c, mode) ==
    /\ \E r \in {write(fs[f], p, c, mode, clock)} :
          /\ fs' = [fs EXCEPT ![f] = r.v]
          /\ evt' = Event(IF mode = "a" THEN "vappend" ELSE "vwrite",
                          0, f, r.err, p, <<>>)
    /\ UNCHANGED <<flagVars, isoVars, instVars, commitVars, clock, host, ctxVars, fdVars>>

\* fs.write_many(files)
VfsWriteMany(f, files) ==
    /\ \E r \in {write_many(fs[f], files, clock)} :
          /\ fs' = [fs EXCEPT ![f] = r.v]
          /\ evt' = Event("vwrite_many", 0, f, r.err, files[1][1], <<>>)
    /\ UNCHANGED <<flagVars, isoVars, instVars, commitVars, clock, host, ctxVars, fdVars>>

\* fs.remove(p)
VfsRemove(f, p) ==
    /\ \E r \in {remove(fs[f], p)} :
          /\ fs' = [fs EXCEPT ![f] = r.v]
          /\ evt' = Event("vremove", 0, f, r.err, p, <<>>)
    /\ UNCHANGED <<flagVars, isoVars, instVars, commitVars, clock, host, ctxVars, fdVars>>

\* fs.rename(src, dst)
VfsRename(f, src, dst) ==
    /\ isfile(fs[f], src) \/ DirRenameModelled(fs[f], src, dst)
    /\ \E r \in {rename(fs[f], src, dst, clock)} :
          /\ fs' = [fs EXCEPT ![f] = r.v]
          /\ evt' = Event("vrename", 0, f, r.err, src, <<>>)
    /\ UNCHANGED <<flagVars, isoVars, instVars, commitVars, clock, host, ctxVars, fdVars>>

\* fs.link(src, dst)
VfsLink(f, src, dst) ==
    /\ \E r \in {link(fs[f], src, dst, clock)} :
          /\ fs' = [fs EXCEPT ![f] = r.v]
          /\ evt' = Event("vlink", 0, f, r.err, src, <<>>)
    /\ UNCHANGED <<flagVars, isoVars, instVars, commitVars, clock, host, ctxVars, fdVars>>

\* fs.truncate(p, length)
VfsTruncate(f, p, length) ==
    /\ \E r \in {truncate(fs[f], p, length, clock)} :
          /\ fs' = [fs EXCEPT ![f] = r.v]
          /\ evt' = Event("vtruncate", 0, f, r.err, p, <<>>)
    /\ UNCHANGED <<flagVars, isoVars, instVars, commitVars, clock, host, ctxVars, fdVars>>

\* the contents a caller writes: one byte up to MaxLen bytes
Contents == {[i \in 1..n |-> 1] : n \in 1..MaxLen}

\* a VirtualFS with a cap of one unit, written under both working
\* directories with a path in each spelling, while the clock moves
InitVfs == InitWith({1})

NextVfs ==
    \/ Tick
    \/ \E p \in {pF, pSlashF, pDotF, pSlashDF}, c \in Contents :
          VfsWrite(1, p, c, "w")
    \/ Chdir(1, pSlashD)
    \/ Chdir(1, Root)

SpecVfs == InitVfs /\ [][NextVfs]_vars

\* a VirtualFS with a cap of one unit and every operation that stores or
\* frees bytes
InitCap == InitWith({1})

NextCap ==
    \/ \E p \in {pF, pSlashDF}, c \in Contents : VfsWrite(1, p, c, "w")
    \/ VfsWrite(1, pF, <<1>>, "a")
    \/ VfsWriteMany(1, <<<<pF, <<1>>, "bytes">>, <<pSlashDF, <<1>>, "bytes">>>>)
    \/ VfsRemove(1, pF)
    \/ VfsRename(1, pF, pDF)
    \/ VfsLink(1, pSlashDF, pF)
    \/ VfsTruncate(1, pF, 1)
    \/ Chdir(1, pSlashD)
    \/ Chdir(1, Root)

SpecCap == InitCap /\ [][NextCap]_vars

\* C8: right after a successful write(p, c), under every working directory
\* and for every spelling of p, read(p) returns c and stat(p).size is
\* len(c); if p was a file before, stat(p).created_at is what it was and
\* stat(p).modified_at has not decreased.
C8_WriteThenReadStat ==
    [][\A p \in {pF, pSlashF, pDotF, pSlashDF}, c \in Contents :
          (VfsWrite(1, p, c, "w") /\ evt'.err = "ok") =>
             /\ readErr(fs'[1], p) = "ok"
             /\ read(fs'[1], p) = c
             /\ statErr(fs'[1], p) = "ok"
             /\ stat(fs'[1], p, clock).size = Len(c)
             /\ (isfile(fs[1], p) /\ statErr(fs[1], p) = "ok") =>
                   /\ stat(fs'[1], p, clock).created_at
                          = stat(fs[1], p, clock).created_at
                   /\ stat(fs'[1], p, clock).modified_at
                          >= stat(fs[1], p, clock).modified_at]_vars

\* the sum of the byte lengths of the files stored under keys
RECURSIVE StoredBytes(_, _)
StoredBytes(files, keys) ==
    IF keys = {} THEN 0
    ELSE LET k == CHOOSE x \in keys : TRUE IN
         Len(files[k]) + StoredBytes(files, keys \ {k})

\* C9: with a size cap configured, the byte lengths of all files stored in
\* the VirtualFS never add up to more than the cap, whatever operations
\* were called.
C9_TotalWithinCap ==
    \A f \in FsIds :
       fs[f].maxSize # NoSize =>
          StoredBytes(fs[f].files, DOMAIN fs[f].files) <= fs[f].maxSize

\* C10: a write rejected with size-limit-exceeded changes nothing: every
\* file's content, every metadata entry (the explicit directories among
\* them) and the cwd are as before the call.
C10_RejectedWriteNoMutation ==
    [][(evt'.op = "vwrite" /\ evt'.err = "SizeLimit")
          => BackendUnchanged]_vars

\* ------------------------------------------------------------------------
\* The bulk operations of VirtualFS (virtual.py)
\* ------------------------------------------------------------------------
\* fs.remove_many(paths)
VfsRemoveMany(f, paths) ==
    /\ \E r \in {remove_many(fs[f], paths)} :
          /\ fs' = [fs EXCEPT ![f] = r.v]
          /\ evt' = Event("vremove_many", 0, f, r.err, paths[1], <<>>)
    /\ UNCHANGED <<flagVars, isoVars, instVars, commitVars, clock, host, ctxVars, fdVars>>

\* the dicts write_many is called with: two files that fit the cap, two
\* that do not, two spellings of one path, and a value that is a str
BulkDicts ==
    {<<<<pF, <<1>>, "bytes">>, <<pSlashDF, <<2>>, "bytes">>>>,
     <<<<pF, <<1, 1>>, "bytes">>, <<pSlashDF, <<2>>, "bytes">>>>,
     <<<<pF, <<1>>, "bytes">>, <<pSlashF, <<2>>, "bytes">>>>,
     <<<<pF, <<1>>, "bytes">>, <<pSlashDF, <<2>>, "str">>>>}

\* the lists remove_many is called with
BulkLists == {<<pF, pSlashDF>>, <<pSlashDF, pF>>}

\* a VirtualFS with a cap of one unit under single writes, bulk writes and
\* bulk removes
InitBulk == InitWith({1})

NextBulk ==
    \/ \E p \in {pF, pSlashDF}, c \in Contents : VfsWrite(1, p, c, "w")
    \/ \E files \in BulkDicts : VfsWriteMany(1, files)
    \/ \E paths \in BulkLists : VfsRemoveMany(1, paths)
    \/ Chdir(1, pSlashD)
    \/ Chdir(1, Root)

SpecBulk == InitBulk /\ [][NextBulk]_vars

\* the index of the last item of files whose path resolves, in v, to the
\* same virtual path as the path of item i
LastSpelling(v, files, i) ==
    CHOOSE j \in i..Len(files) :
       /\ _encode_path(v, files[j][1]) = _encode_path(v, files[i][1])
       /\ \A k \in (j + 1)..Len(files) :
             _encode_path(v, files[k][1]) # _encode_path(v, files[i][1])

\* C11 as stated: after a successful write_many every p_i reads back as its
\* own c_i; a write_many that fails creates and changes no file.
C11_WriteManyAllOrNothing ==
    [][\A files \in BulkDicts :
          VfsWriteMany(1, files) =>
             IF evt'.err = "ok"
             THEN \A i \in 1..Len(files) :
                     /\ readErr(fs'[1], files[i][1]) = "ok"
                     /\ read(fs'[1], files[i][1]) = files[i][2]
             ELSE BackendUnchanged]_vars

\* C11 amended: after a successful write_many every p_i reads back as the
\* content of the last item of the dict whose path resolves to the same
\* virtual path as p_i (its own c_i when no later item does); a write_many
\* that fails, on a value that is not bytes or on the cap, leaves every
\* file, every metadata entry and the cwd as they were.
C11_WriteManyLastSpellingWins ==
    [][\A files \in BulkDicts :
          VfsWriteMany(1, files) =>
             IF evt'.err = "ok"
             THEN \A i \in 1..Len(files) :
                     /\ readErr(fs'[1], files[i][1]) = "ok"
                     /\ read(fs'[1], files[i][1])
                           = files[LastSpelling(fs[1], files, i)][2]
             ELSE /\ evt'.err \in {"TypeError", "SizeLimit"}
                  /\ BackendUnchanged]_vars

\* a write_many was rejected on the cap while a file written before it is
\* still there
C11_Witness ==
    /\ evt.op = "vwrite_many"
    /\ evt.err = "SizeLimit"
    /\ fs[1].files # EmptyFn

\* C12: a remove_many that raises not-found has removed nothing: every file
\* that existed before the call still exists with its content.
C12_RemoveManyValidatesFirst ==
    [][(evt'.op = "vremove_many" /\ evt'.err = "FileNotFoundError")
          => fs'[1].files = fs[1].files]_vars

\* ------------------------------------------------------------------------
\* Directories, listing and renaming in VirtualFS (virtual.py)
\* ------------------------------------------------------------------------
\* list: the exception, and the names listed when there is none
listErr(v, p) ==
    IF isfile(v, p) THEN "NotADirectoryError"
    ELSE IF ~isdir(v, p) THEN "FileNotFoundError" ELSE "ok"

\* the stored paths and the explicit directories, without leading slashes
Listed(v) ==
    DOMAIN v.files
        \cup {LStrip(k) : k \in {m \in DOMAIN v.meta : v.meta[m].is_dir}}

\* the immediate children of the resolved path among them
list(v, p) ==
    LET path == resolve_path(v, p) IN
    {k.comps[Len(path.comps) + 1] : k \in {m \in Listed(v) : Under(m, path)}}

rmdir(v, p) ==
    LET path == resolve_path(v, p)
        normalized == normalize_path(path)
    IN IF ~exists(v, path) THEN Raise(existsV(v, path), "FileNotFoundError")
       ELSE IF isfile(v, path) THEN Raise(existsV(v, path), "NotADirectoryError")
       ELSE IF ~isdir(v, path) THEN Raise(existsV(v, path), "FileNotFoundError")
       ELSE IF list(v, path) # {} THEN Raise(existsV(v, path), "OSError")
       ELSE Ok([v EXCEPT !.meta = IF normalized \in DOMAIN @
                                  THEN Without(@, normalized) ELSE @,
                         !.dirCache = NoCache])

\* fs.mkdir(p)
VfsMkdir(f, p) ==
    /\ \E r \in {mkdir(fs[f], p, FALSE, clock)} :
          /\ fs' = [fs EXCEPT ![f] = r.v]
          /\ evt' = Event("vmkdir", 0, f, r.err, p, <<>>)
    /\ UNCHANGED <<flagVars, isoVars, instVars, commitVars, clock, host, ctxVars, fdVars>>

\* fs.rmdir(p)
VfsRmdir(f, p) ==
    /\ \E r \in {rmdir(fs[f], p)} :
          /\ fs' = [fs EXCEPT ![f] = r.v]
          /\ evt' = Event("vrmdir", 0, f, r.err, p, <<>>)
    /\ UNCHANGED <<flagVars, isoVars, instVars, commitVars, clock, host, ctxVars, fdVars>>

pUpF == P(FALSE, <<"..", "f">>)
pG == P(FALSE, <<"g">>)

\* an uncapped VirtualFS whose files and directories are written and
\* removed under both working directories
InitTree == InitWith({NoSize})

NextTree ==
    \/ \E p \in {pF, pSlashD} : VfsWrite(1, p, <<1>>, "w")
    \/ VfsWrite(1, pSlashDF, <<2>>, "w")
    \/ \E p \in {pF, pSlashDF} : VfsRemove(1, p)
    \/ VfsMkdir(1, pSlashD)
    \/ VfsRmdir(1, pSlashD)
    \/ Chdir(1, pSlashD)
    \/ Chdir(1, Root)

SpecTree == InitTree /\ [][NextTree]_vars

\* the renames of the model: to another name, to another spelling of the
\* same path, into a directory
Renames == {<<pF, pG>>, <<pF, pSlashF>>, <<pSlashF, pSlashDF>>}

\* an uncapped VirtualFS whose file is written and renamed under both
\* working directories while the clock moves
InitRename == InitWith({NoSize})

NextRename ==
    \/ Tick
    \/ VfsWrite(1, pF, <<1>>, "w")
    \/ \E sd \in Renames : VfsRename(1, sd[1], sd[2])
    \/ Chdir(1, pSlashD)
    \/ Chdir(1, Root)

SpecRename == InitRename /\ [][NextRename]_vars

\* the paths the claims look at, and the spellings they are called with
ObsPaths == {Root, pF, pSlashF, pSlashD, pSlashDF, pDF}
Spellings == {pF, pSlashF, pDotF, pUpF, pDF, pSlashDF, pSlashD}

\* what the queries of VirtualFS answer for q
Observe(v, q) ==
    <<exists(v, q), isfile(v, q), isdir(v, q), listErr(v, q),
      IF listErr(v, q) = "ok" THEN list(v, q) ELSE {}>>

\* the same with what read and stat return
Query(v, q, now) ==
    <<Observe(v, q),
      readErr(v, q), IF readErr(v, q) = "ok" THEN read(v, q) ELSE <<>>,
      statErr(v, q),
      IF statErr(v, q) = "ok" THEN stat(v, q, now)
      ELSE FileMetadata(0, now, now, FALSE)>>

\* what a call did: how it ended and what it left in the VirtualFS
Effect(r) == <<r.err, r.v.files, r.v.meta, r.v.cwd>>

\* C13: in every state and for every path p that does not exist, write(p, c)
\* followed by remove(p) succeeds and leaves exists, isfile, isdir and list
\* of every path as they were, and p without content and without a metadata
\* entry.
C13_WriteRemoveRestores ==
    \A p \in {pF, pSlashDF}, c \in Contents :
       ~exists(fs[1], p) =>
          \A w \in {write(fs[1], p, c, "w", clock)} :
             w.err = "ok" =>
                \A r \in {remove(w.v, p)} :
                   /\ r.err = "ok"
                   /\ \A q \in ObsPaths : Observe(r.v, q) = Observe(fs[1], q)
                   /\ readErr(r.v, p) # "ok"
                   /\ _encode_path(r.v, p) \notin DOMAIN r.v.meta

\* C14: in every state, two spellings that resolve to the same virtual path
\* get the same answer from read, exists, isfile, isdir, stat and list and
\* have the same effect in write, remove, mkdir, rmdir and rename; a call
\* with an absolute path answers the same under every working directory;
\* and resolve_path of a resolved path is that path.
C14_SpellingsAgree ==
    /\ \A p \in Spellings, q \in Spellings :
          _encode_path(fs[1], p) = _encode_path(fs[1], q) =>
             /\ Query(fs[1], p, clock) = Query(fs[1], q, clock)
             /\ Effect(write(fs[1], p, <<1>>, "w", clock))
                   = Effect(write(fs[1], q, <<1>>, "w", clock))
             /\ Effect(remove(fs[1], p)) = Effect(remove(fs[1], q))
             /\ Effect(mkdir(fs[1], p, FALSE, clock))
                   = Effect(mkdir(fs[1], q, FALSE, clock))
             /\ Effect(rmdir(fs[1], p)) = Effect(rmdir(fs[1], q))
             /\ isfile(fs[1], p) =>
                   Effect(rename(fs[1], p, pG, clock))
                      = Effect(rename(fs[1], q, pG, clock))
    /\ \A p \in {q \in Spellings : q.abs}, cwd \in {Root, pSlashD} :
          isdir(fs[1], cwd) =>
             Query([fs[1] EXCEPT !.cwd = cwd], p, clock)
                = Query(fs[1], p, clock)
    /\ \A p \in Spellings :
          resolve_path(fs[1], resolve_path(fs[1], p)) = resolve_path(fs[1], p)

\* C17: in every state no path is both a file and a directory.
C17_FileXorDir ==
    \A q \in ObsPaths : ~(isfile(fs[1], q) /\ isdir(fs[1], q))

\* C15: a rename(src, dst) of a file that returns without error leaves dst
\* with the bytes src held and with src's created_at, and src absent unless
\* it resolves to the path of dst.
C15_RenameKeepsContent ==
    [][\A sd \in Renames :
          (/\ VfsRename(1, sd[1], sd[2])
           /\ isfile(fs[1], sd[1])
           /\ evt'.err = "ok") =>
             /\ readErr(fs'[1], sd[2]) = "ok"
             /\ read(fs'[1], sd[2]) = read(fs[1], sd[1])
             /\ statErr(fs[1], sd[1]) = "ok" =>
                   /\ statErr(fs'[1], sd[2]) = "ok"
                   /\ stat(fs'[1], sd[2], clock).created_at
                         = stat(fs[1], sd[1], clock).created_at
             /\ _encode_path(fs[1], sd[1]) # _encode_path(fs[1], sd[2]) =>
                   ~exists(fs'[1], sd[1])]_vars

\* the total _get_current_size counts against the cap
Accounted(v) == _get_current_size(v).curSize

\* C16: with a cap configured, rename of an existing file succeeds and the
\* total counted against the cap is the same after it as before.
C16_RenameKeepsAccounting ==
    [][(VfsRename(1, pF, pDF) /\ isfile(fs[1], pF)) =>
          /\ evt'.err = "ok"
          /\ Accounted(fs'[1]) = Accounted(fs[1])]_vars

\* ------------------------------------------------------------------------
\* The routing wrappers (patching/patches.py, patching/core.py).  A call is
\* the record of the primitive's name and the caller's arguments:
\*   path, dst : the path arguments;  ptype : the type of path, "str",
\*   "Path" or "bytes";  dir_fd : whether a dir_fd was passed;  guard :
\*   whether the re-entrancy guard the wrapper reads is set;  mode : the mode
\*   of open;  flags : the flags of os.open;  fmode, exist_ok : the
\*   arguments of Path.touch;  times : the (atime, mtime) pair of os.utime.
\* A wrapper takes the task's activation cell f and the world
\*   [v, h, origs, err]: the active VirtualFS, the host's files, the calls
\*   made to _originals so far, and how the call ended.
\* ------------------------------------------------------------------------
\* times=None of os.utime
NoTimes == <<>>

Call(prim, path, ptype) ==
    [prim |-> prim, path |-> path, dst |-> EmptyStr, ptype |-> ptype,
     dir_fd |-> FALSE, guard |-> FALSE, mode |-> "r", flags |-> {},
     fmode |-> "default", exist_ok |-> TRUE, times |-> NoTimes]

\* str(path): the path itself for a str or a Path; for bytes the repr
\* "b'...'", a relative string whose first component starts with "b'"
Str(c) ==
    IF c.ptype = "bytes" THEN P(FALSE, <<"b'">> \o c.path.comps \o <<"'">>)
    ELSE c.path

\* the call with str(path) in place of path
WithStr(c) == [c EXCEPT !.path = Str(c), !.ptype = "str"]

\* _SAFE_SYSTEM_PATHS: the roots of the runtime, here the one root "/usr"
_SAFE_SYSTEM_PATHS == {<<"usr">>}

\* the text of an absolute path: "/" for no component, else "/a/b"
RECURSIVE PathText(_)
PathText(comps) ==
    IF comps = <<>> THEN "/"
    ELSE IF Len(comps) = 1 THEN "/" \o comps[1]
    ELSE "/" \o Head(comps) \o PathText(Tail(comps))

\* s.startswith(prefix): a comparison of characters
StartsWith(s, prefix) ==
    Len(s) >= Len(prefix) /\ SubSeq(s, 1, Len(prefix)) = prefix

\* the comparison of whole components in place of characters
StartsWithComps(real, sp) ==
    Len(real) >= Len(sp) /\ SubSeq(real, 1, Len(sp)) = sp

\* _is_safe_system_path with f active and cwd the directory abspath joins
\* with: os.path.realpath ends in the rebound abspath, which with an FS active
\* takes str(path) and joins it with the FS's getcwd(), so a bytes path
\* becomes the text of its repr; with no FS active realpath returns bytes and
\* "any(path_str.startswith(sp) ...)" raises TypeError
_is_safe_system_path(f, cwd, path, ptype) ==
    IF ptype = "bytes" /\ f = NoFs THEN "TypeError"
    ELSE LET s == IF ptype = "bytes"
                  THEN P(FALSE, <<"b'">> \o path.comps \o <<"'">>)
                  ELSE path
             joined == IF s.abs THEN s.comps ELSE cwd.comps \o s.comps
             path_str == PathText(NormComps(TRUE, joined, <<>>))
         IN IF \E sp \in _SAFE_SYSTEM_PATHS :
                  StartsWith(path_str, PathText(sp))
            THEN "yes" ELSE "no"

\* the host has a directory at k: a file of the host lies below it
HostIsDir(h, k) ==
    \E m \in h : /\ Len(m.comps) > Len(k.comps)
                 /\ SubSeq(m.comps, 1, Len(k.comps)) = k.comps

\* an original primitive on the host: the host's files after it and how it
\* ended
HostCall(h, prim, a) ==
    LET k == P(TRUE, NormComps(TRUE, a.path.comps, <<>>))
        created == [h |-> h \cup {k}, err |-> "ok"]
        needs == [h |-> h,
                  err |-> IF k \in h THEN "ok" ELSE "FileNotFoundError"]
    IN CASE prim \in {"open", "os_open"} ->
               IF a.mode # "r" \/ "O_CREAT" \in a.flags THEN created
               ELSE needs
         [] prim \in {"mkdir", "makedirs", "touch"} -> created
         [] prim \in {"remove", "unlink", "rmdir"} ->
               IF k \in h THEN [h |-> h \ {k}, err |-> "ok"] ELSE needs
         [] prim = "rename" ->
               IF k \in h
               THEN [h |-> (h \ {k})
                              \cup {P(TRUE, NormComps(TRUE, a.dst.comps, <<>>))},
                     err |-> "ok"]
               ELSE needs
         [] prim = "isdir" -> [h |-> h, err |-> "ok"]
         [] prim = "listdir" ->
               [h |-> h,
                err |-> IF HostIsDir(h, k) THEN "ok"
                        ELSE IF k \in h THEN "NotADirectoryError"
                        ELSE "FileNotFoundError"]
         [] OTHER -> needs

\* return _originals[prim](args)
Orig(w, prim, a) ==
    The({ [v |-> w.v, h |-> r.h,
           origs |-> Append(w.origs, [prim |-> prim, args |-> a]),
           err |-> r.err]
        : r \in {HostCall(w.h, prim, a)}})

\* return fs.method(...): r is what the method did
Fs(w, r) == [v |-> r.v, h |-> w.h, origs |-> w.origs, err |-> r.err]

_vfs_remove(f, w, c, now) ==
    IF f # NoFs THEN Fs(w, remove(w.v, Str(c))) ELSE Orig(w, "remove", c)

_vfs_unlink(f, w, c, now) ==
    IF f # NoFs THEN Fs(w, remove(w.v, Str(c))) ELSE Orig(w, "unlink", c)

_vfs_mkdir(f, w, c, now) ==
    IF f # NoFs THEN Fs(w, mkdir(w.v, Str(c), FALSE, now))
    ELSE Orig(w, "mkdir", c)

_vfs_makedirs(f, w, c, now) ==
    IF f # NoFs THEN Fs(w, makedirs(w.v, Str(c), now))
    ELSE Orig(w, "makedirs", c)

_vfs_rmdir(f, w, c, now) ==
    IF c.dir_fd THEN Orig(w, "rmdir", c)
    ELSE IF f # NoFs THEN Fs(w, rmdir(w.v, Str(c)))
    ELSE Orig(w, "rmdir", c)

_vfs_rename(f, w, c, now) ==
    IF f # NoFs
    THEN Fs(w, rename(w.v, Str(c), Str([c EXCEPT !.path = c.dst]), now))
    ELSE Orig(w, "rename", c)

\* VirtualFS.chmod: "if not self.exists(path): raise FileNotFoundError"
chmod(v, p) ==
    IF exists(v, p) THEN Ok(existsV(v, p))
    ELSE Raise(existsV(v, p), "FileNotFoundError")

_vfs_chmod(f, w, c, now) ==
    IF f # NoFs THEN Fs(w, chmod(w.v, Str(c))) ELSE Orig(w, "chmod", c)

_vfs_truncate(f, w, c, now) ==
    IF f # NoFs THEN Fs(w, truncate(w.v, Str(c), 0, now))
    ELSE Orig(w, "truncate", c)

_vfs_utime(f, w, c, now) ==
    IF f # NoFs
    THEN IF exists(w.v, Str(c)) THEN Fs(w, Ok(existsV(w.v, Str(c))))
         ELSE IF _is_safe_system_path(f, getcwd(w.v), Str(c), "str") = "yes"
              THEN Orig(Fs(w, Ok(existsV(w.v, Str(c)))), "utime", WithStr(c))
         ELSE Fs(w, Raise(existsV(w.v, Str(c)), "FileNotFoundError"))
    ELSE Orig(w, "utime", c)

\* FileNotFoundError(errno.ENOENT, os.strerror(errno.ENOENT), path_str): the
\* kind of the error _vfs_stat raises in its second except clause
EnoentError == "FileNotFoundError"

\* the except clauses of _vfs_stat for the error e of fs.stat, v1 being the
\* FS after the call: PermissionError, and FileNotFoundError or
\* NotADirectoryError, fall back to the original for a safe system path;
\* else the first is re-raised and the other two become EnoentError; an
\* error of another kind is not caught
StatExcept(f, w, c, e, v1) ==
    IF e \in {"PermissionError", "FileNotFoundError", "NotADirectoryError"}
    THEN The({
           IF safe = "yes" THEN Orig(Fs(w, Ok(v1)), "stat", c)
           ELSE Fs(w, Raise(v1, IF e = "PermissionError" THEN e
                                ELSE EnoentError))
         : safe \in {_is_safe_system_path(f, getcwd(w.v), c.path, c.ptype)}})
    ELSE Fs(w, Raise(v1, e))

_vfs_stat(f, w, c, now) ==
    IF c.guard THEN Orig(w, "stat", c)
    ELSE IF f # NoFs
    THEN The({
           IF e = "ok" THEN Fs(w, Ok(v1)) ELSE StatExcept(f, w, c, e, v1)
         : e \in {statErr(w.v, Str(c))},
           v1 \in {IF isfile(w.v, Str(c)) THEN w.v ELSE isdirV(w.v, Str(c))}})
    ELSE Orig(w, "stat", c)

\* _vfs_listdir: fs.isdir, then fs.list; an error of fs.list is re-raised
\* unless the path is a safe system path; a path the FS has no directory
\* at falls back to the host for a safe path that is a directory there and
\* else raises the wrapper's own not-found
_vfs_listdir(f, w, c, now) ==
    IF f # NoFs
    THEN The({
           IF isdir(w.v, Str(c))
           THEN (IF e = "ok" THEN Fs(w, Ok(v1))
                 ELSE IF safe = "yes" THEN Orig(Fs(w, Ok(v1)), "listdir", c)
                 ELSE Fs(w, Raise(v1, e)))
           ELSE IF safe = "yes"
           THEN The({
                  IF HostIsDir(w.h, P(TRUE, NormComps(TRUE, c.path.comps, <<>>)))
                  THEN Orig(w1, "listdir", c)
                  ELSE [w1 EXCEPT !.err = "FileNotFoundError"]
                : w1 \in {Orig(Fs(w, Ok(v1)), "isdir", c)}})
           ELSE Fs(w, Raise(v1, "FileNotFoundError"))
         : e \in {listErr(w.v, Str(c))},
           v1 \in {isdirV(w.v, Str(c))},
           safe \in {_is_safe_system_path(f, getcwd(w.v), c.path, c.ptype)}})
    ELSE Orig(w, "listdir", c)

\* VirtualFS.open(path, mode) and the close of the file object it returns,
\* nothing having been written to it
fsOpen(v, p, mode, now) ==
    IF mode = "r"
    THEN (IF readErr(v, p) = "ok" THEN Ok(v) ELSE Raise(v, readErr(v, p)))
    ELSE IF mode = "x" /\ exists(v, p)
    THEN Raise(existsV(v, p), "FileExistsError")
    ELSE openWrite(v, p,
                   IF mode = "a" /\ readErr(v, p) = "ok" THEN read(v, p)
                   ELSE <<>>, now)

_vfs_open(f, w, c, now) ==
    IF c.guard THEN Orig(w, "open", c)
    ELSE IF f # NoFs /\ c.ptype \in {"str", "Path"}
    THEN The({
           IF /\ r.err \in {"PermissionError", "FileNotFoundError"}
              /\ c.mode = "r"
              /\ _is_safe_system_path(f, getcwd(w.v), c.path, c.ptype) = "yes"
           THEN Orig(Fs(w, Ok(r.v)), "open", c)
           ELSE Fs(w, r)
         : r \in {fsOpen(w.v, Str(c), c.mode, now)}})
    ELSE Orig(w, "open", c)

\* Path.touch: Path.exists() is os.stat(self) with not-found read as False,
\* then os.utime(self, None) or builtins.open(self, "a"), each through its
\* own wrapper; mode is not passed on
_vfs_touch(f, w, c, now) ==
    The({
      IF pre.mode = "none" THEN pre.w
      ELSE _vfs_open(f, pre.w,
                     [Call("open", c.path, c.ptype) EXCEPT !.mode = pre.mode],
                     now)
    : pre \in {
        IF ~c.exist_ok THEN [w |-> w, mode |-> "x"]
        ELSE The({
               IF s.err = "ok"
               THEN The({ [w |-> u,
                           mode |-> IF u.err = "FileNotFoundError" THEN "a"
                                    ELSE "none"]
                        : u \in {_vfs_utime(f, s,
                                            Call("utime", c.path, c.ptype),
                                            now)}})
               ELSE [w |-> s,
                     mode |-> IF s.err = "FileNotFoundError" THEN "a"
                              ELSE "none"]
             : s \in {_vfs_stat(f, w, Call("stat", c.path, c.ptype),
                                now)}})}})

\* "is_write = flags & (O_CREAT | O_WRONLY | O_RDWR | O_TRUNC | O_APPEND)"
is_write(flags) ==
    flags \cap {"O_CREAT", "O_WRONLY", "O_RDWR", "O_TRUNC", "O_APPEND"} # {}

\* _vfs_os_open hands the call to _fd_table.allocate
ToTable(f, c) ==
    /\ ~c.dir_fd
    /\ ~c.guard
    /\ f # NoFs
    /\ c.ptype \in {"str", "Path"}
    /\ ~(/\ ~is_write(c.flags)
         /\ _is_safe_system_path(f, getcwd(fs[f]), Str(c), "str") = "yes")

\* _vfs_os_open; the table's part of an allocation is the action OsOpen
_vfs_os_open(f, w, c, now) ==
    IF c.dir_fd \/ c.guard THEN Orig(w, "os_open", c)
    ELSE IF f # NoFs /\ c.ptype \in {"str", "Path"}
    THEN IF /\ ~is_write(c.flags)
            /\ _is_safe_system_path(f, getcwd(w.v), Str(c), "str") = "yes"
         THEN Orig(w, "os_open", WithStr(c))
         ELSE The({ Fs(w, [v |-> a.v, err |-> a.err])
                  : a \in {allocate(w.v, f, Str(c), c.flags, now)}})
    ELSE Orig(w, "os_open", c)

\* the wrapper the primitive's name is bound to
Wrapper(f, w, c, now) ==
    CASE c.prim = "remove" -> _vfs_remove(f, w, c, now)
      [] c.prim = "unlink" -> _vfs_unlink(f, w, c, now)
      [] c.prim = "mkdir" -> _vfs_mkdir(f, w, c, now)
      [] c.prim = "makedirs" -> _vfs_makedirs(f, w, c, now)
      [] c.prim = "rmdir" -> _vfs_rmdir(f, w, c, now)
      [] c.prim = "rename" -> _vfs_rename(f, w, c, now)
      [] c.prim = "chmod" -> _vfs_chmod(f, w, c, now)
      [] c.prim = "truncate" -> _vfs_truncate(f, w, c, now)
      [] c.prim = "utime" -> _vfs_utime(f, w, c, now)
      [] c.prim = "stat" -> _vfs_stat(f, w, c, now)
      [] c.prim = "listdir" -> _vfs_listdir(f, w, c, now)
      [] c.prim = "open" -> _vfs_open(f, w, c, now)
      [] c.prim = "touch" -> _vfs_touch(f, w, c, now)
      [] c.prim = "os_open" -> _vfs_os_open(f, w, c, now)

\* what a routed call did: the call, and the originals it reached, in order
RouteEvent(t, f, err, c, origs) ==
    [op |-> "route", t |-> t, f |-> f, err |-> err, path |-> c.path,
     data |-> <<>>, fd |-> 0, call |-> c, orig |-> origs]

\* task t calls the primitive of c while the wrappers are installed; an
\* os.open that _vfs_os_open hands to the fd table is the action OsOpen
RouteCall(t, c) ==
    /\ pc[t] = "idle"
    /\ ~(c.prim = "os_open" /\ ToTable(current[t], c))
    /\ \E w \in {[v |-> IF current[t] = NoFs THEN NewVFS(NoSize)
                         ELSE fs[current[t]],
                   h |-> host, origs |-> <<>>, err |-> "ok"]} :
       \E r \in {Wrapper(current[t], w, c, clock)} :
          /\ fs' = IF current[t] = NoFs THEN fs
                   ELSE [fs EXCEPT ![current[t]] = r.v]
          /\ host' = r.h
          /\ evt' = RouteEvent(t, current[t], r.err, c, r.origs)
    /\ UNCHANGED <<flagVars, isoVars, instVars, commitVars, clock, ctxVars, fdVars>>

\* the kinds of error the stat() of a backend may raise
BackendKinds ==
    {"FileNotFoundError", "NotADirectoryError", "PermissionError", "OSError"}

\* task t calls os.stat(c.path) while the active FS is a VirtualFS whose
\* stat() raises an error of kind e
RouteStatRaising(t, c, e) ==
    /\ pc[t] = "idle"
    /\ current[t] \in FsIds
    /\ \E w \in {[v |-> fs[current[t]], h |-> host, origs |-> <<>>,
                   err |-> "ok"]} :
       \E r \in {StatExcept(current[t], w, c, e, w.v)} :
          evt' = [RouteEvent(t, current[t], r.err, c, r.origs)
                    EXCEPT !.op = "route_raising", !.data = <<e>>]
    /\ UNCHANGED <<flagVars, isoVars, instVars, commitVars, fs, clock, host,
                   ctxVars, fdVars>>

pUsrX == P(TRUE, <<"usr", "x">>)
pUsr == P(TRUE, <<"usr">>)

\* the calls of the model: every wrapper with a path outside and a path
\* inside the safe roots, and the arguments its branches look at
RouteCalls ==
    {Call(prim, p, "str") :
        prim \in {"remove", "mkdir", "utime"}, p \in {pSlashF, pUsrX}}
    \cup {Call(prim, pSlashF, "str") :
             prim \in {"unlink", "makedirs", "chmod", "truncate"}}
    \cup {[Call("rename", pSlashF, "str") EXCEPT !.dst = pG]}
    \cup {[Call("rmdir", pSlashD, "str") EXCEPT !.dir_fd = d] : d \in BOOLEAN}
    \cup {[Call("open", p, ty) EXCEPT !.mode = m] :
             p \in {pSlashF, pUsrX}, ty \in {"str", "bytes"}, m \in {"r", "w"}}
    \cup {[Call("open", pSlashF, "str") EXCEPT !.mode = "w", !.guard = TRUE]}
    \cup {Call("stat", p, ty) :
             p \in {pSlashF, pUsrX}, ty \in {"str", "Path", "bytes"}}
    \cup {[Call("stat", pUsrX, "str") EXCEPT !.guard = TRUE]}
    \cup {Call("listdir", p, ty) :
             p \in {pSlashF, pUsr, pUsrX}, ty \in {"str", "bytes"}}
    \cup {Call("listdir", pG, "str")}
    \cup {[Call("touch", pSlashF, "Path") EXCEPT !.fmode = m, !.exist_ok = e] :
             m \in {"default", "0o600"}, e \in BOOLEAN}
    \cup {[Call("os_open", p, "str") EXCEPT !.flags = fl, !.dir_fd = d] :
             p \in {pSlashF, pUsrX}, fl \in {CreatWr, RdOnly}, d \in BOOLEAN}
    \cup {[Call("os_open", pSlashF, "bytes") EXCEPT !.flags = CreatWr]}

\* one task that enters and leaves scopes and calls the rebound primitives,
\* on a host that holds one file under a safe root
InitRoute ==
    /\ InitRest
    /\ fs = [f \in FsIds |-> NewVFS(NoSize)]
    /\ clock = 0
    /\ host = {pUsrX}
    /\ current = [t \in Tasks |-> NoFs]
    /\ scopes = [t \in Tasks |-> <<>>]
    /\ shutil_flag = TRUE
    /\ tempdir = "host"
    /\ next_fd = _BASE_FD
    /\ table = EmptyFn
    /\ lock = 0
    /\ pc = [t \in Tasks |-> "idle"]
    /\ loc = [t \in Tasks |-> NoLoc]
    /\ fobj = EmptyFn
    /\ fdlog = <<>>
    /\ evt = NoEvt

NextRoute ==
    \/ scopes[1] = <<>> /\ Patch(1, 1)
    \/ scopes[1] # <<>> /\ Suspend(1)
    \/ ExitScope(1, FALSE)
    \/ \E c \in RouteCalls : RouteCall(1, c)
    \/ \E p \in {pSlashF, pUsrX}, e \in BackendKinds :
          RouteStatRaising(1, Call("stat", p, "str"), e)

SpecRoute == InitRoute /\ [][NextRoute]_vars

\* the mutation-shaped calls: remove/unlink, mkdir/makedirs/rmdir, rename,
\* chmod, truncate, utime, and open or os.open for write, append or create
Mutation(c) ==
    \/ c.prim \in {"remove", "unlink", "mkdir", "makedirs", "rmdir", "rename",
                   "chmod", "truncate", "utime"}
    \/ c.prim = "open" /\ c.mode # "r"
    \/ c.prim = "os_open" /\ is_write(c.flags)

\* C18: while an FS is active and no re-entrancy guard is set, a
\* mutation-shaped call never reaches an original host primitive, whatever
\* the path, the type of the path and the optional arguments.
C18_MutationsNeverReachHost ==
    [][(/\ evt'.op = "route"
        /\ evt'.f # NoFs
        /\ ~evt'.call.guard
        /\ Mutation(evt'.call)) => evt'.orig = <<>>]_vars

\* the path of the call lies under a safe system root
SafePath(c) == _is_safe_system_path(NoFs, Root, c.path, "str") = "yes"

\* the call is read-shaped and its FS call fails with not-found or
\* permission-denied in v
ReadFails(v, c, now) ==
    \/ /\ c.prim = "stat"
       /\ statErr(v, Str(c)) \in {"FileNotFoundError", "PermissionError"}
    \/ /\ c.prim = "open"
       /\ c.mode = "r"
       /\ c.ptype \in {"str", "Path"}
       /\ fsOpen(v, Str(c), "r", now).err
              \in {"FileNotFoundError", "PermissionError"}

\* C19: while an FS is active, a read-shaped call (open for read, stat)
\* whose FS call fails with not-found or permission-denied gets the original
\* primitive's result if the path is a safe system path, and otherwise the
\* error propagates and no original primitive is used.
C19_ReadFallbackOnlyForSafePaths ==
    [][(/\ evt'.op = "route"
        /\ evt'.f # NoFs
        /\ ~evt'.call.guard
        /\ ReadFails(fs[evt'.f], evt'.call, clock)) =>
          IF SafePath(evt'.call)
          THEN /\ evt'.orig = <<[prim |-> evt'.call.prim,
                                 args |-> evt'.call]>>
               /\ evt'.err = HostCall(host, evt'.call.prim, evt'.call).err
          ELSE /\ evt'.orig = <<>>
               /\ evt'.err \in {"FileNotFoundError", "PermissionError"}]_vars

\* C20: when the task's activation cell is none, every path-taking wrapper
\* calls the corresponding original primitive, once, with the caller's
\* arguments unchanged, and returns its result.
C20_InertWithoutFs ==
    [][(evt'.op = "route" /\ evt'.f = NoFs) =>
          /\ evt'.orig = <<[prim |-> evt'.call.prim, args |-> evt'.call]>>
          /\ evt'.err = HostCall(host, evt'.call.prim, evt'.call).err
          /\ host' = HostCall(host, evt'.call.prim, evt'.call).h]_vars

\* ------------------------------------------------------------------------
\* The process-wide flags of patch() under concurrent threads
\* ------------------------------------------------------------------------
\* some task is inside a patch scope
PatchActive ==
    \E t \in Tasks : \E i \in 1..Len(scopes[t]) : scopes[t][i].kind = "patch"

\* C24: for any interleaving of activation scopes of concurrent threads,
\* each pairing its own enter and exit, shutil's fast-path flags are off
\* whenever some activation scope is active, and whenever none is active
\* they have the value they had before the first activation, also after a
\* scope body raised.
C24_FastPathFlagsFollowScopes ==
    IF PatchActive THEN shutil_flag = FALSE ELSE shutil_flag = TRUE

\* ------------------------------------------------------------------------
\* What a virtual fd is bound to
\* ------------------------------------------------------------------------
\* the absolute virtual path the path given to os.open named when the fd was
\* opened
BoundPath(f, fd) ==
    Slash(resolve_path([fs[f] EXCEPT !.cwd = LogOf(fd).ocwd],
                       LogOf(fd).opath))

\* C30: a virtual fd is bound, when it is opened, to the FS active at that
\* moment and to the path as resolved at that moment: close persists the
\* buffer to that FS at that path, even if the FS's working directory was
\* changed between open and close.
C30_FdBoundAtOpen ==
    (/\ evt.op = "close"
     /\ evt.err = "ok"
     /\ evt.f # NoFs
     /\ LogOf(evt.fd).writable)
    => /\ readErr(fs[evt.f], BoundPath(evt.f, evt.fd)) = "ok"
       /\ read(fs[evt.f], BoundPath(evt.f, evt.fd)) = evt.data

\* ------------------------------------------------------------------------
\* os.utime on a VirtualFS
\* ------------------------------------------------------------------------
\* os.utime(path) and os.utime(path, (2, 2)), on each spelling of a path
UtimeCalls ==
    {[Call("utime", p, "str") EXCEPT !.times = ts] :
        p \in {pF, pSlashF}, ts \in {NoTimes, <<2, 2>>}}

\* one task that writes a file of a VirtualFS directly and calls os.utime
\* inside and outside a patch scope, while the clock moves
InitUtime == InitWith({NoSize})

NextUtime ==
    \/ Tick
    \/ scopes[1] = <<>> /\ Patch(1, 1)
    \/ ExitScope(1, FALSE)
    \/ \E c \in Contents : VfsWrite(1, pF, c, "w")
    \/ VfsRemove(1, pF)
    \/ \E c \in UtimeCalls : RouteCall(1, c)

SpecUtime == InitUtime /\ [][NextUtime]_vars

\* C28: os.utime routed to an active VirtualFS sets the modified-at of an
\* existing path to now when times is None and to the second value of the
\* pair otherwise, leaving created-at and size unchanged; on a missing path
\* it raises not-found.
C28_UtimeSetsModifiedAt ==
    [][(/\ evt'.op = "route"
        /\ evt'.f # NoFs
        /\ evt'.call.prim = "utime") =>
          IF exists(fs[evt'.f], evt'.path)
          THEN /\ evt'.err = "ok"
               /\ stat(fs'[evt'.f], evt'.path, clock).modified_at =
                     IF evt'.call.times = NoTimes THEN clock
                     ELSE evt'.call.times[2]
               /\ stat(fs'[evt'.f], evt'.path, clock).created_at =
                     stat(fs[evt'.f], evt'.path, clock).created_at
               /\ stat(fs'[evt'.f], evt'.path, clock).size =
                     stat(fs[evt'.f], evt'.path, clock).size
          ELSE evt'.err = "FileNotFoundError"]_vars

\* ------------------------------------------------------------------------
\* The home directory: os.path.expanduser, os.path.expandvars, os.getenv
\* ------------------------------------------------------------------------
\* A string is a sequence of tokens: "~", "/", ".", the word character "c",
\* and the texts "$HOME" and "${HOME}".  A home directory is spelled with
\* word characters of its own ("h", "k"), so its text shows in a result.
MaxStr == 3
StrTokens == {"~", "/", ".", "c", "$HOME", "${HOME}"}
Homes == {<<"/", "h">>, <<"/", "k", "/">>}
IsWord(tok) == tok \in {"c", "h", "k"}
NoneValue == <<"None">>

\* re: the length of the match of a pattern at the head of s (0: none); a
\* pattern is a literal text, followed or not by the word boundary \b
MatchLen(pat, s) ==
    LET n == Len(pat.lit) IN
    IF /\ Len(s) >= n
       /\ SubSeq(s, 1, n) = pat.lit
       /\ pat.wb => (Len(s) = n \/ ~IsWord(s[n + 1]))
    THEN n ELSE 0

\* re.sub(pat, repl, s): the leftmost matches, none overlapping
RECURSIVE re_sub(_, _, _)
re_sub(pat, repl, s) ==
    IF s = <<>> THEN <<>>
    ELSE IF MatchLen(pat, s) > 0
         THEN repl \o re_sub(pat, repl, SubSeq(s, MatchLen(pat, s) + 1, Len(s)))
         ELSE <<Head(s)>> \o re_sub(pat, repl, Tail(s))

\* str.rstrip("/")
RECURSIVE RStrip(_)
RStrip(s) ==
    IF s # <<>> /\ Last(s) = "/" THEN RStrip(Front(s)) ELSE s

\* posixpath.expanduser with HOME = home: "~" and "~/rest" take the home,
\* "~name" names a user the host does not have and stays as it is
orig_expanduser(s, home) ==
    IF s = <<>> \/ Head(s) # "~" THEN s
    ELSE IF Len(s) > 1 /\ s[2] # "/" THEN s
         ELSE LET r == RStrip(home) \o Tail(s) IN
              IF r = <<>> THEN <<"/">> ELSE r

\* posixpath.expandvars with HOME = home: $HOME up to a character that
\* cannot continue a name, and ${HOME}; no other variable is in the text
orig_expandvars(s, home) ==
    re_sub([lit |-> <<"${HOME}">>, wb |-> FALSE], home,
           re_sub([lit |-> <<"$HOME">>, wb |-> TRUE], home, s))

\* os.getenv(key, default) on an environment that sets HOME and PATH
orig_getenv(key, default, home) ==
    CASE key = "HOME" -> home
      [] key = "PATH" -> <<"/", "c">>
      [] OTHER -> default

\* posixpath.expanduser called whatever the cell holds
expanduser_unrouted(f, s, home) == orig_expanduser(s, home)

\* _vfs_expanduser: path_str[2:] after "~/", and "/" for every other "~..."
_vfs_expanduser(f, s, home) ==
    IF f # NoFs
    THEN IF s # <<>> /\ Head(s) = "~"
         THEN IF Len(s) >= 2 /\ s[2] = "/"
              THEN <<"/">> \o SubSeq(s, 3, Len(s))
              ELSE <<"/">>
         ELSE s
    ELSE orig_expanduser(s, home)

\* _vfs_getenv
_vfs_getenv(f, key, default, home) ==
    IF f # NoFs /\ key = "HOME" THEN <<"/">>
    ELSE orig_getenv(key, default, home)

\* _vfs_expandvars: the four substitutions, in the order of the code
_vfs_expandvars(f, s, home) ==
    IF f # NoFs
    THEN re_sub([lit |-> <<"${HOME}">>, wb |-> FALSE], <<"/">>,
         re_sub([lit |-> <<"$HOME">>, wb |-> TRUE], <<"/">>,
         re_sub([lit |-> <<"${HOME}", "/">>, wb |-> FALSE], <<"/">>,
         re_sub([lit |-> <<"$HOME", "/">>, wb |-> FALSE], <<"/">>, s))))
    ELSE orig_expandvars(s, home)

\* the texts of the model
Strs == UNION {[1..n -> StrTokens] : n \in 0..MaxStr}
EnvKeys == {"HOME", "PATH", "NONE"}

ExpandEvent(t, f, fn, arg, home, result) ==
    [op |-> "expand", t |-> t, f |-> f, err |-> "ok", path |-> Root,
     data |-> <<>>, fd |-> 0, fn |-> fn, arg |-> arg, home |-> home,
     result |-> result]

\* task t calls one of the three on a host whose HOME is home
Expanduser(t, s, home) ==
    /\ pc[t] = "idle"
    /\ evt' = ExpandEvent(t, current[t], "expanduser", s, home,
                          _vfs_expanduser(current[t], s, home))
    /\ UNCHANGED <<flagVars, isoVars, instVars, commitVars, fs, clock, host, ctxVars, fdVars>>

Expandvars(t, s, home) ==
    /\ pc[t] = "idle"
    /\ evt' = ExpandEvent(t, current[t], "expandvars", s, home,
                          _vfs_expandvars(current[t], s, home))
    /\ UNCHANGED <<flagVars, isoVars, instVars, commitVars, fs, clock, host, ctxVars, fdVars>>

Getenv(t, key, default, home) ==
    /\ pc[t] = "idle"
    /\ evt' = ExpandEvent(t, current[t], "getenv", <<key>>, home,
                          _vfs_getenv(current[t], key, default, home))
    /\ UNCHANGED <<flagVars, isoVars, instVars, commitVars, fs, clock, host, ctxVars, fdVars>>

InitHome == InitWith({NoSize})

NextHome ==
    \/ scopes[1] = <<>> /\ Patch(1, 1)
    \/ scopes[1] # <<>> /\ Suspend(1)
    \/ ExitScope(1, FALSE)
    \/ \E s \in Strs, home \in Homes : Expanduser(1, s, home)
    \/ \E s \in Strs, home \in Homes : Expandvars(1, s, home)
    \/ \E key \in EnvKeys, home \in Homes :
          Getenv(1, key, NoneValue, home)

SpecHome == InitHome /\ [][NextHome]_vars

\* a variable of the text at position i: ${HOME}, or $HOME where no word
\* character continues the name
IsHomeVar(s, i) ==
    \/ s[i] = "${HOME}"
    \/ s[i] = "$HOME" /\ (i = Len(s) \/ ~IsWord(s[i + 1]))

\* the text with each of its variables rewritten to "/"
HomeRewritten(s) ==
    [i \in 1..Len(s) |-> IF IsHomeVar(s, i) THEN "/" ELSE s[i]]

\* the text with every run of "/" written as one "/"
RECURSIVE Collapse(_)
Collapse(s) ==
    IF Len(s) < 2 THEN s
    ELSE IF s[1] = "/" /\ s[2] = "/" THEN Collapse(Tail(s))
         ELSE <<Head(s)>> \o Collapse(Tail(s))

ShowsHome(s) == \E i \in 1..Len(s) : s[i] \in {"h", "k"}

\* C26: while an FS is active expanduser maps "~" to "/" and "~/x" to "/x",
\* expandvars rewrites $HOME and ${HOME} to "/", and the lookup of HOME gives
\* "/", so that no result shows the host's home directory; with no FS
\* active each returns the host's value.
C26_HomeNeverLeaks ==
    evt.op = "expand" =>
       IF evt.f # NoFs
       THEN /\ ~ShowsHome(evt.result)
            /\ (evt.fn = "expanduser" /\ evt.arg = <<"~">>) =>
                  evt.result = <<"/">>
            /\ (evt.fn = "expanduser" /\ Len(evt.arg) >= 2
                  /\ SubSeq(evt.arg, 1, 2) = <<"~", "/">>) =>
                  evt.result = <<"/">> \o SubSeq(evt.arg, 3, Len(evt.arg))
            /\ evt.fn = "expandvars" =>
                  /\ Collapse(evt.result) = Collapse(HomeRewritten(evt.arg))
                  /\ \A i \in 1..Len(evt.result) :
                        ~IsHomeVar(evt.result, i)
            /\ (evt.fn = "expandvars" /\ Len(evt.arg) >= 2
                  /\ evt.arg[1] \in {"$HOME", "${HOME}"}
                  /\ evt.arg[2] = "/"
                  /\ \A i \in 3..Len(evt.arg) : ~IsHomeVar(evt.arg, i)) =>
                  evt.result = Tail(evt.arg)
            /\ (evt.fn = "getenv" /\ evt.arg = <<"HOME">>) =>
                  evt.result = <<"/">>
       ELSE evt.result =
               CASE evt.fn = "expanduser" -> orig_expanduser(evt.arg, evt.home)
                 [] evt.fn = "expandvars" -> orig_expandvars(evt.arg, evt.home)
                 [] OTHER -> orig_getenv(evt.arg[1], NoneValue, evt.home)

\* "$HOME/c" was expanded to "/c" inside a scope, on a host whose home is
\* "/h"
C26_Witness ==
    /\ evt.op = "expand"
    /\ evt.f # NoFs
    /\ evt.fn = "expandvars"
    /\ evt.arg = <<"$HOME", "/", "c">>
    /\ evt.result = <<"/", "c">>
    /\ evt.home = <<"/", "h">>

\* ------------------------------------------------------------------------
\* defer_commits and the backing store's commit() (context.py, virtual.py)
\* ------------------------------------------------------------------------
\* with defer_commits(): up to the yield; the token records the flag's value
DeferEnter(t) ==
    /\ pc[t] = "idle"
    /\ Len(scopes[t]) < MaxScopes
    /\ scopes' = [scopes EXCEPT ![t] =
           Append(@, Scope("defer", NoFs, defer[t], shutil_flag, tempdir))]
    /\ defer' = [defer EXCEPT ![t] = TRUE]
    /\ evt' = Event("defer", t, NoFs, "ok", Root, <<>>)
    /\ UNCHANGED <<flagVars, isoVars, instVars, commits, fs, clock, host, current,
                   shutil_flag, tempdir, fdVars>>

\* the finally of defer_commits: _defer_commits.reset(token), the body
\* having returned or raised
DeferExit(t, raised) ==
    /\ pc[t] = "idle"
    /\ scopes[t] # <<>>
    /\ Last(scopes[t]).kind = "defer"
    /\ scopes' = [scopes EXCEPT ![t] = Front(@)]
    /\ defer' = [defer EXCEPT ![t] = Last(scopes[t]).token]
    /\ evt' = [Event("undefer", t, NoFs,
                     IF raised THEN "raised" ELSE "ok", Root, <<>>)
                  EXCEPT !.data = <<Last(scopes[t]).token>>]
    /\ UNCHANGED <<flagVars, isoVars, instVars, commits, fs, clock, host, current,
                   shutil_flag, tempdir, fdVars>>

\* task t calls fs.write(p, c) or fs.remove(p) on a VirtualFS whose store
\* defines commit(): neither method reads _defer_commits nor calls commit()
TaskWrite(t, f, p, c) ==
    /\ pc[t] = "idle"
    /\ \E r \in {write(fs[f], p, c, "w", clock)} :
          /\ fs' = [fs EXCEPT ![f] = r.v]
          /\ evt' = Event("twrite", t, f, r.err, p, c)
    /\ UNCHANGED <<flagVars, isoVars, instVars, commitVars, clock, host, ctxVars, fdVars>>

TaskRemove(t, f, p) ==
    /\ pc[t] = "idle"
    /\ \E r \in {remove(fs[f], p)} :
          /\ fs' = [fs EXCEPT ![f] = r.v]
          /\ evt' = Event("tremove", t, f, r.err, p, <<>>)
    /\ UNCHANGED <<flagVars, isoVars, instVars, commitVars, clock, host, ctxVars, fdVars>>

\* one task that writes and removes two files of a VirtualFS inside and outside
\* nested defer_commits scopes, while the clock moves
InitCommit == InitWith({NoSize})

NextCommit ==
    \/ Tick
    \/ DeferEnter(1)
    \/ \E raised \in BOOLEAN : DeferExit(1, raised)
    \/ \E p \in {pF, pG}, c \in Contents : TaskWrite(1, 1, p, c)
    \/ \E p \in {pF, pG} : TaskRemove(1, 1, p)

SpecCommit == InitCommit /\ [][NextCommit]_vars

\* C27: a mutation of a VirtualFS whose store defines commit() is followed
\* by one commit() exactly when the task is in no defer_commits scope;
\* inside a scope commit() is not called and the store is changed as it is
\* outside; the exit of a scope puts the flag back, also after an error.
C27_CommitUnlessDeferred ==
    [][/\ (evt'.op \in {"twrite", "tremove"} /\ evt'.err = "ok") =>
             /\ commits'[evt'.f] = IF defer[evt'.t] THEN commits[evt'.f]
                                   ELSE commits[evt'.f] + 1
             /\ fs'[evt'.f] =
                   IF evt'.op = "twrite"
                   THEN write(fs[evt'.f], evt'.path, evt'.data, "w", clock).v
                   ELSE remove(fs[evt'.f], evt'.path).v
       /\ evt'.op = "undefer" => defer'[evt'.t] = (evt'.data = <<TRUE>>)
       /\ evt'.op = "defer" => defer'[evt'.t]
      ]_vars

\* ------------------------------------------------------------------------
\* install() called by concurrent threads (patching/install.py)
\* ------------------------------------------------------------------------
\* install() entered without regard to the lock
InstallUnlocked(l) == TRUE

\* threading.Lock: "with _lock:" is entered when no thread holds it
InstallLockFree(l) == l = 0

\* "with _lock:" of install(): the thread takes the lock when it is free
InstallAcquire(t) ==
    /\ pc[t] = "idle"
    /\ InstallLockFree(install_lock)
    /\ install_lock' = t
    /\ pc' = [pc EXCEPT ![t] = "install_check"]
    /\ evt' = Event("install_enter", t, NoFs, "ok", Root, <<>>)
    /\ UNCHANGED <<flagVars, isoVars, installed, rebinds, commitVars, fs, clock, host,
                   current, scopes, shutil_flag, tempdir,
                   next_fd, table, lock, loc, fobj, fdlog>>

\* "if _installed: return": the return leaves the with block, which
\* releases the lock
InstallCheck(t) ==
    /\ pc[t] = "install_check"
    /\ IF installed
       THEN /\ pc' = [pc EXCEPT ![t] = "idle"]
            /\ install_lock' = 0
            /\ evt' = Event("install_done", t, NoFs, "ok", Root, <<FALSE>>)
       ELSE /\ pc' = [pc EXCEPT ![t] = "install_apply"]
            /\ evt' = Event("install_check", t, NoFs, "ok", Root, <<>>)
            /\ UNCHANGED install_lock
    /\ UNCHANGED <<flagVars, isoVars, installed, rebinds, commitVars, fs, clock, host,
                   current, scopes, shutil_flag, tempdir,
                   next_fd, table, lock, loc, fobj, fdlog>>

\* _apply_patches(): the primitives are rebound to the wrappers
InstallApply(t) ==
    /\ pc[t] = "install_apply"
    /\ rebinds' = rebinds + 1
    /\ pc' = [pc EXCEPT ![t] = "install_set"]
    /\ evt' = Event("install_apply", t, NoFs, "ok", Root, <<>>)
    /\ UNCHANGED <<flagVars, isoVars, installed, install_lock, commitVars, fs, clock,
                   host, current, scopes, shutil_flag, tempdir,
                   next_fd, table, lock, loc, fobj, fdlog>>

\* "_installed = True" and the end of the with block
InstallSet(t) ==
    /\ pc[t] = "install_set"
    /\ installed' = TRUE
    /\ install_lock' = 0
    /\ pc' = [pc EXCEPT ![t] = "idle"]
    /\ evt' = Event("install_done", t, NoFs, "ok", Root, <<TRUE>>)
    /\ UNCHANGED <<flagVars, isoVars, rebinds, commitVars, fs, clock, host,
                   current, scopes, shutil_flag, tempdir,
                   next_fd, table, lock, loc, fobj, fdlog>>

\* the process before any install(): the primitives are the originals
InitInstall ==
    /\ InitFlags
    /\ disk = BareDisk
    /\ ifs = NewIFS
    /\ installed = FALSE
    /\ install_lock = 0
    /\ rebinds = 0
    /\ defer = [t \in Tasks |-> FALSE]
    /\ commits = [f \in FsIds |-> 0]
    /\ fs = [f \in FsIds |-> NewVFS(NoSize)]
    /\ clock = 0
    /\ host = {}
    /\ current = [t \in Tasks |-> NoFs]
    /\ scopes = [t \in Tasks |-> <<>>]
    /\ shutil_flag = TRUE
    /\ tempdir = "host"
    /\ next_fd = _BASE_FD
    /\ table = EmptyFn
    /\ lock = 0
    /\ pc = [t \in Tasks |-> "idle"]
    /\ loc = [t \in Tasks |-> NoLoc]
    /\ fobj = EmptyFn
    /\ fdlog = <<>>
    /\ evt = NoEvt

\* the threads call install() directly, and through patch(fs), as often as
\* they like
NextInstall ==
    \/ \E t \in Tasks : InstallAcquire(t)
    \/ \E t \in Tasks : InstallCheck(t)
    \/ \E t \in Tasks : InstallApply(t)
    \/ \E t \in Tasks : InstallSet(t)
    \/ \E t \in Tasks, f \in FsIds : scopes[t] = <<>> /\ Patch(t, f)
    \/ \E t \in Tasks : ExitScope(t, FALSE)

SpecInstall == InitInstall /\ [][NextInstall]_vars

\* C25: whatever the interleaving of the threads' calls of install(), the
\* primitives are rebound once, the installed flag never goes back to false,
\* and when a call has returned the process is in the state one call leaves:
\* installed, and rebound once.
C25_InstallIdempotent ==
    [][/\ rebinds' <= 1
       /\ installed => installed'
       /\ installed' => rebinds' = 1
       /\ evt'.op \in {"install_done", "patch"} =>
             installed' /\ rebinds' = 1
      ]_vars

\* thread 2's install() returned at "if _installed", the patches having
\* been applied by an earlier call, and no scope is open
C25_Witness ==
    /\ evt.op = "install_done"
    /\ evt.t = 2
    /\ evt.data = <<FALSE>>
    /\ installed
    /\ rebinds = 1
    /\ scopes[1] = <<>>
    /\ scopes[2] = <<>>

\* ------------------------------------------------------------------------
\* IsolatedFS (isolated.py).  The host's tree is disk: host path (the
\* sequence of its components) -> node; the IsolatedFS is rooted at IsoRoot
\* and its state mapping is ifs = [cwd, meta].  Every operation takes the
\* world [i, d] and returns [i, d, err, res].
\* ------------------------------------------------------------------------
\* the value current_fs holds while the IsolatedFS is active
IsoId == 3

\* symlinks resolve() follows before it reports a loop
MaxHops == 3

IsPrefix(a, b) == Len(a) <= Len(b) /\ SubSeq(b, 1, Len(a)) = a

IsKind(d, hp, kind) == hp \in DOMAIN d /\ d[hp].kind = kind

\* the component that stands for a name with an embedded NUL byte
Nul == "nul"

\* Path(...): "." components are dropped, ".." components are kept
PathParts(comps) == SelectSeq(comps, LAMBDA c : c # ".")

\* Path.resolve() from the host directory cur over the components rest:
\* ".." steps to the parent, a symlink is replaced by its target, a missing
\* name is kept; ok = FALSE is the symlink loop
RECURSIVE Walk(_, _, _, _)
Walk(d, cur, rest, hops) ==
    IF rest = <<>> THEN [ok |-> TRUE, path |-> cur]
    ELSE IF Head(rest) = ".."
         THEN Walk(d, IF cur = <<>> THEN cur ELSE Front(cur), Tail(rest), hops)
         ELSE IF Head(rest) = "."
              THEN Walk(d, cur, Tail(rest), hops)
              ELSE IF IsKind(d, Append(cur, Head(rest)), "link")
                   THEN IF hops = 0
                        THEN [ok |-> FALSE, path |-> Append(cur, Head(rest))]
                        ELSE Walk(d,
                                  IF d[Append(cur, Head(rest))].target.abs
                                  THEN <<>> ELSE cur,
                                  d[Append(cur, Head(rest))].target.comps
                                     \o Tail(rest),
                                  hops - 1)
                   ELSE Walk(d, Append(cur, Head(rest)), Tail(rest), hops)

IsoOk(w, res) == [i |-> w.i, d |-> w.d, err |-> "ok", res |-> res]
IsoRaise(w, e) == [i |-> w.i, d |-> w.d, err |-> e, res |-> <<>>]

\* IsolatedFS.getcwd
ifs_getcwd(i) == i.cwd

\* the final boundary check left out: whatever resolve() returns is accepted
Unbounded(root, resolved) == TRUE

\* resolved.relative_to(self.root) succeeds
WithinRoot(root, resolved) == IsPrefix(root, resolved)

\* IsolatedFS._validate_path: a relative path is put after the cwd; a path
\* that does not start with the root's own text is taken under the root;
\* the result of resolve() must be the root or below it
_validate_path(w, p) ==
    LET parts == PathParts(IF p.abs THEN p.comps
                           ELSE ifs_getcwd(w.i).comps \o p.comps)
        r == Walk(w.d, <<>>,
                  IF IsPrefix(IsoRoot, parts) THEN parts ELSE IsoRoot \o parts,
                  MaxHops)
    IN  IF \E k \in 1..Len(parts) : parts[k] = Nul
        THEN IsoRaise(w, "ValueError")
        ELSE IF ~r.ok THEN IsoRaise(w, "RuntimeError")
        ELSE IF ~WithinRoot(IsoRoot, r.path) THEN IsoRaise(w, "PermissionError")
        ELSE IsoOk(w, r.path)

\* str(resolved.relative_to(self.root)): the key of the metadata
RelPath(hp) == SubSeq(hp, Len(IsoRoot) + 1, Len(hp))

\* IsolatedFS._update_file_metadata, once the path has been validated
ifs_update_file_metadata(i, hp, size, now) ==
    [i EXCEPT !.meta =
        (RelPath(hp) :>
            [size |-> size,
             created_at |-> IF RelPath(hp) \in DOMAIN i.meta
                            THEN i.meta[RelPath(hp)].created_at ELSE now,
             modified_at |-> now]) @@ i.meta]

\* IsolatedFS._remove_file_metadata, once the path has been validated
ifs_remove_file_metadata(i, hp) ==
    [i EXCEPT !.meta = Without(i.meta, RelPath(hp))]

\* Path.mkdir(parents=True, exist_ok=True) of the host directory hp
MkdirParents(d, hp) ==
    [q \in DOMAIN d \cup {SubSeq(hp, 1, k) : k \in 0..Len(hp)} |->
        IF q \in DOMAIN d THEN d[q] ELSE Dir]

\* IsolatedFS.write(path, content): validate, create the parents, write the
\* bytes, record the size
ifs_write(w, p, content, now) ==
    The({ IF v.err # "ok" THEN v
          ELSE IF \E k \in 1..(Len(v.res) - 1) :
                     IsKind(w.d, SubSeq(v.res, 1, k), "file")
          THEN IsoRaise(w, "FileExistsError")
          ELSE IF IsKind(w.d, v.res, "dir")
          THEN [IsoRaise(w, "IsADirectoryError")
                   EXCEPT !.d = MkdirParents(w.d, Front(v.res))]
          ELSE [i |-> ifs_update_file_metadata(w.i, v.res, Len(content), now),
                d |-> (v.res :> File(content))
                         @@ MkdirParents(w.d, Front(v.res)),
                err |-> "ok", res |-> <<>>]
        : v \in {_validate_path(w, p)} })

\* IsolatedFS.write_many(files): write each in turn, up to the first that
\* raises
RECURSIVE ifs_write_many(_, _, _)
ifs_write_many(w, files, now) ==
    IF files = <<>> THEN IsoOk(w, <<>>)
    ELSE The({ IF r.err # "ok" THEN r
               ELSE ifs_write_many([i |-> r.i, d |-> r.d], Tail(files), now)
             : r \in {ifs_write(w, files[1][1], files[1][2], now)} })

\* IsolatedFS.rename(src, dst) of a file or of a missing path: both paths
\* are validated, the metadata of src is dropped, the host renames, the
\* metadata of dst is recorded
ifs_rename(w, src, dst, now) ==
    The({ IF vs.err # "ok" THEN vs
          ELSE IF vd.err # "ok" THEN vd
          ELSE IF ~IsKind(w.d, vs.res, "file")
          THEN IsoRaise(w, "FileNotFoundError")
          ELSE IF ~IsKind(w.d, Front(vd.res), "dir")
          THEN [IsoRaise(w, "FileNotFoundError")
                   EXCEPT !.i = ifs_remove_file_metadata(w.i, vs.res)]
          ELSE IF IsKind(w.d, vd.res, "dir")
          THEN [IsoRaise(w, "IsADirectoryError")
                   EXCEPT !.i = ifs_remove_file_metadata(w.i, vs.res)]
          ELSE [i |-> ifs_update_file_metadata(
                         ifs_remove_file_metadata(w.i, vs.res), vd.res,
                         Len(w.d[vs.res].data), now),
                d |-> (vd.res :> w.d[vs.res]) @@ Without(w.d, vs.res),
                err |-> "ok", res |-> <<>>]
        : vs \in {_validate_path(w, src)}, vd \in {_validate_path(w, dst)} })

\* IsolatedFS.realpath: "/" and the validated path relative to the root
ifs_realpath(w, p) ==
    The({ IF v.err # "ok" THEN v ELSE IsoOk(w, P(TRUE, RelPath(v.res)))
        : v \in {_validate_path(w, p)} })

\* IsolatedFS.resolve_path: os.path.normpath of the path, put after the cwd
\* when it is relative
ifs_resolve_path(i, p) ==
    normpath(IF p.abs THEN p ELSE P(TRUE, ifs_getcwd(i).comps \o p.comps))

\* IsolatedFS.chdir up to the end of its suspend scope: the normalized path
\* is validated and must be a directory of the host
ifs_chdir_check(w, p) ==
    The({ IF v.err # "ok" THEN v
          ELSE IF ~IsKind(w.d, v.res, "dir")
          THEN IsoRaise(w, "FileNotFoundError")
          ELSE IsoOk(w, ifs_resolve_path(w.i, p))
        : v \in {_validate_path(w, ifs_resolve_path(w.i, p))} })

\* a call of a public operation of the IsolatedFS
IsoCall(op, path) ==
    [op |-> op, path |-> path, dst |-> Root, data |-> <<>>, files |-> <<>>]

\* what the operation does inside its suspend scope
IsoBody(w, c, now) ==
    CASE c.op = "validate" -> _validate_path(w, c.path)
      [] c.op = "write" -> ifs_write(w, c.path, c.data, now)
      [] c.op = "write_many" -> ifs_write_many(w, c.files, now)
      [] c.op = "rename" -> ifs_rename(w, c.path, c.dst, now)
      [] c.op = "realpath" -> ifs_realpath(w, c.path)
      [] OTHER -> ifs_chdir_check(w, c.path)

\* a step of a public operation: the value of current_fs while it ran
\* (active) and before the operation began (token), whether the step made
\* host-level calls, and whether the operation is over
IsoEvent(t, c, r, active, token, hostcalls, done) ==
    [op |-> "iso", t |-> t, f |-> IsoId, err |-> r.err, path |-> c.path,
     data |-> c.data, fd |-> 0, call |-> c, res |-> r.res,
     active |-> active, token |-> token, hostcalls |-> hostcalls,
     done |-> done]

\* a suspend scope that leaves the cell as it is
NotSuspended(cur, t) == cur

\* current_fs.set(None) of suspend_fs_interception
Suspended(cur, t) == CtxSet(cur, t, NoFs)

\* "with suspend_fs_interception():" at the head of the operation
IsoEnter(t, c) ==
    /\ pc[t] = "idle"
    /\ Len(scopes[t]) < MaxScopes
    /\ scopes' = [scopes EXCEPT ![t] =
           Append(@, Scope("suspend", NoFs, current[t], shutil_flag, tempdir))]
    /\ current' = Suspended(current, t)
    /\ pc' = [pc EXCEPT ![t] = "iso"]
    /\ loc' = [loc EXCEPT ![t] = c]
    /\ evt' = Event("iso_enter", t, IsoId, "ok", c.path, <<>>)
    /\ UNCHANGED <<flagVars, isoVars, instVars, commitVars, fs, clock, host,
                   shutil_flag, tempdir, next_fd, table, lock, fobj, fdlog>>

\* the body of the operation and the finally of its suspend scope; chdir
\* goes on to store the cwd
IsoExit(t) ==
    /\ pc[t] = "iso"
    /\ \E r \in {IsoBody([i |-> ifs, d |-> disk], loc[t], clock)} :
          /\ ifs' = r.i
          /\ disk' = r.d
          /\ scopes' = [scopes EXCEPT ![t] = Front(@)]
          /\ current' = CtxReset(current, t, Last(scopes[t]).token)
          /\ IF loc[t].op = "chdir" /\ r.err = "ok"
             THEN /\ pc' = [pc EXCEPT ![t] = "chdir_store"]
                  /\ loc' = [loc EXCEPT ![t] = [loc[t] EXCEPT !.dst = r.res]]
             ELSE /\ pc' = [pc EXCEPT ![t] = "idle"]
                  /\ loc' = [loc EXCEPT ![t] = NoLoc]
          /\ evt' = IsoEvent(t, loc[t], r, current[t], Last(scopes[t]).token,
                             TRUE, ~(loc[t].op = "chdir" /\ r.err = "ok"))
    /\ UNCHANGED <<flagVars, instVars, commitVars, fs, clock, host,
                   shutil_flag, tempdir, next_fd, table, lock, fobj, fdlog>>

\* the last statement of chdir, after its suspend scope:
\* self._state[CWD_KEY] = "/" + resolved_virtual.lstrip("/")
ChdirStore(t) ==
    /\ pc[t] = "chdir_store"
    /\ ifs' = [ifs EXCEPT !.cwd = Slash(loc[t].dst)]
    /\ pc' = [pc EXCEPT ![t] = "idle"]
    /\ loc' = [loc EXCEPT ![t] = NoLoc]
    /\ evt' = IsoEvent(t, loc[t], IsoOk([i |-> ifs, d |-> disk], <<>>),
                       current[t], current[t], FALSE, TRUE)
    /\ UNCHANGED <<flagVars, disk, instVars, commitVars, fs, clock, host, current,
                   scopes, shutil_flag, tempdir,
                   next_fd, table, lock, fobj, fdlog>>

\* IsolatedFS.getcwd(): the state mapping is read, no scope is entered
IsoGetcwd(t) ==
    /\ pc[t] = "idle"
    /\ evt' = IsoEvent(t, IsoCall("getcwd", Root),
                       IsoOk([i |-> ifs, d |-> disk], ifs_getcwd(ifs)),
                       current[t], current[t], FALSE, TRUE)
    /\ UNCHANGED <<flagVars, isoVars, instVars, commitVars, fs, clock, host, ctxVars, fdVars>>

\* os.path.realpath of the host: resolve() from the host's root
orig_realpath(d, p) == Walk(d, <<>>, p.comps, MaxHops).path

\* _vfs_realpath with the IsolatedFS or nothing active: a PermissionError
\* of fs.realpath becomes "/" unless the path is a safe system path
_vfs_realpath(f, w, c) ==
    IF f = NoFs THEN IsoOk(w, P(TRUE, orig_realpath(w.d, c.path)))
    ELSE The({ IF r.err = "PermissionError"
               THEN IF _is_safe_system_path(f, ifs_getcwd(w.i), c.path,
                                            "str") = "yes"
                    THEN IsoOk(w, P(TRUE, orig_realpath(w.d, c.path)))
                    ELSE IsoOk(w, Root)
               ELSE r
             : r \in {ifs_realpath(w, c.path)} })

\* task t calls os.path.realpath(p) while the wrappers are installed
RouteRealpath(t, p) ==
    /\ pc[t] = "idle"
    /\ current[t] \in {NoFs, IsoId}
    /\ \E r \in {_vfs_realpath(current[t], [i |-> ifs, d |-> disk],
                               IsoCall("realpath", p))} :
          evt' = [op |-> "os_realpath", t |-> t, f |-> current[t],
                  err |-> r.err, path |-> p, data |-> <<>>, fd |-> 0,
                  res |-> r.res]
    /\ UNCHANGED <<flagVars, isoVars, instVars, commitVars, fs, clock, host, ctxVars, fdVars>>

pOutF == P(FALSE, <<"out", "f">>)
pLoop == P(FALSE, <<"loop">>)
pNulF == P(FALSE, <<Nul>>)
pUpUpF == P(FALSE, <<"..", "..", "f">>)
pRootF == P(TRUE, IsoRoot \o <<"f">>)
pDUpUp == P(FALSE, <<"d", "..", "..">>)
pUpRootF == P(TRUE, <<"..", "r", "f">>)

\* the paths of the model: inside the root, through "..", through a symlink
\* that leaves the root, through a symlink loop, with a NUL byte, in the
\* root's own text, and out of the root and back into it
IsoPaths ==
    {Root, pF, pDF, pSlashD, pUpF, pOutF, pLoop, pNulF, pRootF, pDUpUp,
     pUpRootF}

IsoCalls ==
    {IsoCall("validate", p) : p \in IsoPaths}
    \cup {[IsoCall("write", p) EXCEPT !.data = <<1>>] :
             p \in {pF, pUpF, pOutF, pSlashD}}
    \cup {[IsoCall("write_many", pF) EXCEPT !.files = fl] :
             fl \in {<<<<pF, <<1>>>>, <<pUpF, <<1>>>>>>,
                     <<<<pUpF, <<1>>>>, <<pF, <<1>>>>>>}}
    \cup {[IsoCall("rename", pF) EXCEPT !.dst = q] : q \in {pG, pUpF}}
    \cup {[IsoCall("rename", pUpF) EXCEPT !.dst = pF]}
    \cup {IsoCall("realpath", p) : p \in {pF, pUpF}}
    \cup {IsoCall("chdir", p) : p \in {pSlashD, Root, pUpF}}

\* an IsolatedFS rooted at /r of a host that holds the directory /e outside
\* the root and, inside it, the directory d, the symlink out -> /e and the
\* symlink loop -> loop
IsoDisk ==
    (<<"e">> :> Dir)
    @@ (IsoRoot \o <<"d">> :> Dir)
    @@ (IsoRoot \o <<"out">> :> Link(P(TRUE, <<"e">>)))
    @@ (IsoRoot \o <<"loop">> :> Link(P(FALSE, <<"loop">>)))
    @@ BareDisk

InitIso ==
    /\ InitFlags
    /\ disk = IsoDisk
    /\ ifs = NewIFS
    /\ installed = TRUE
    /\ install_lock = 0
    /\ rebinds = 1
    /\ defer = [t \in Tasks |-> FALSE]
    /\ commits = [f \in FsIds |-> 0]
    /\ fs = [f \in FsIds |-> NewVFS(NoSize)]
    /\ clock = 0
    /\ host = {}
    /\ current = [t \in Tasks |-> NoFs]
    /\ scopes = [t \in Tasks |-> <<>>]
    /\ shutil_flag = TRUE
    /\ tempdir = "host"
    /\ next_fd = _BASE_FD
    /\ table = EmptyFn
    /\ lock = 0
    /\ pc = [t \in Tasks |-> "idle"]
    /\ loc = [t \in Tasks |-> NoLoc]
    /\ fobj = EmptyFn
    /\ fdlog = <<>>
    /\ evt = NoEvt

\* one task that enters and leaves a scope of the IsolatedFS and calls its
\* operations, directly and through os.path.realpath
NextIso ==
    \/ scopes[1] = <<>> /\ Patch(1, IsoId)
    \/ ExitScope(1, FALSE)
    \/ \E c \in IsoCalls : IsoEnter(1, c)
    \/ IsoExit(1)
    \/ ChdirStore(1)
    \/ IsoGetcwd(1)
    \/ \E p \in {pF, pUpF, pUpUpF, pOutF} : RouteRealpath(1, p)

SpecIso == InitIso /\ [][NextIso]_vars

\* no prefix of the host path is a symlink: the host reaches through it the
\* node it names
Resolved(d, hp) ==
    \A k \in 1..Len(hp) : ~IsKind(d, SubSeq(hp, 1, k), "link")

HasNul(p) == \E k \in 1..Len(p.comps) : p.comps[k] = Nul

PathsOf(c) ==
    CASE c.op = "rename" -> {c.path, c.dst}
      [] c.op = "write_many" -> {c.files[k][1] : k \in 1..Len(c.files)}
      [] OTHER -> {c.path}

\* C22: an operation of the IsolatedFS given a path that escapes the root
\* raises PermissionError and leaves the host's tree, inside and outside
\* the root, and the tracked metadata as they were.
C22_EscapeRaisesBeforeTouching ==
    [][(/\ evt'.op = "iso"
        /\ evt'.hostcalls
        /\ \E p \in PathsOf(evt'.call) :
              _validate_path([i |-> ifs, d |-> disk], p).err
                 = "PermissionError") =>
          /\ evt'.err = "PermissionError"
          /\ disk' = disk
          /\ ifs' = ifs]_vars

\* C23 (as amended): a public operation of the IsolatedFS makes its
\* host-level calls inside a suspend scope, the task's current_fs being
\* None, and when the operation has returned or raised current_fs is what
\* it was before the call.
C23_HostCallsSuspended ==
    evt.op = "iso" =>
       /\ evt.hostcalls => evt.active = NoFs
       /\ evt.done => current[evt.t] = evt.token

\* write("../f") was called with the IsolatedFS active: it ran suspended,
\* raised, and the IsolatedFS is active again
C23_Witness ==
    /\ evt.op = "iso"
    /\ evt.call.op = "write"
    /\ evt.err = "PermissionError"
    /\ evt.hostcalls
    /\ evt.active = NoFs
    /\ evt.token = IsoId
    /\ current[evt.t] = IsoId

\* C23 (as stated): every public operation of the IsolatedFS runs with the
\* task's current_fs None from its start to its end, and current_fs is
\* restored when it has returned or raised.
C23_EveryOperationSuspends ==
    evt.op = "iso" =>
       /\ evt.active = NoFs
       /\ evt.done => current[evt.t] = evt.token

\* C29: while the IsolatedFS is active, os.path.realpath of a path that
\* escapes the root returns the normalized absolute virtual path.
C29_RealpathEscapeNormalized ==
    [][(/\ evt'.op = "os_realpath"
        /\ evt'.f = IsoId
        /\ _validate_path([i |-> ifs, d |-> disk], evt'.path).err
              = "PermissionError") =>
          /\ evt'.err = "ok"
          /\ evt'.res = ifs_resolve_path(ifs, evt'.path)]_vars

\* ------------------------------------------------------------------------
\* The accounted total and the caches of VirtualFS
\* ------------------------------------------------------------------------
\* C33: the total the VirtualFS counts against the cap is the sum of the
\* byte lengths of the files it stores, after any sequence of writes,
\* removes and renames, under any working directory and for any spelling
\* of the paths.
C33_AccountedIsStored ==
    \A f \in FsIds :
       Accounted(fs[f]) = StoredBytes(fs[f].files, DOMAIN fs[f].files)

\* a VirtualFS built anew over the same store: nothing cached yet
Fresh(v) == [v EXCEPT !.dirCache = NoCache, !.curSize = NoSize]

pSlashE == P(TRUE, <<"e">>)
pSlashDG == P(TRUE, <<"d", "g">>)
pSlashDxG == P(TRUE, <<"dx", "g">>)
pSlashDx == P(TRUE, <<"dx">>)
pSlashEG == P(TRUE, <<"e", "g">>)

\* the renames of a directory, onto a free name, back, and onto a file's name
DirMoves == {<<pSlashD, pSlashE>>, <<pSlashE, pSlashD>>, <<pSlashD, pSlashF>>}

\* a VirtualFS with a cap of one unit whose directories are made, filled and
\* renamed; a write over the cap is rejected after its parent was made
InitDirs == InitWith({1})

NextDirs ==
    \/ \E p \in {pSlashF, pSlashDG, pSlashDxG}, c \in Contents :
          VfsWrite(1, p, c, "w")
    \/ VfsRemove(1, pSlashF)
    \/ VfsMkdir(1, pSlashD)
    \/ \E sd \in DirMoves : VfsRename(1, sd[1], sd[2])

SpecDirs == InitDirs /\ [][NextDirs]_vars

\* the paths whose answers are compared
DirPaths == {pSlashF, pSlashD, pSlashE, pSlashDx, pSlashDG, pSlashEG,
             pSlashDxG}

\* C34: whatever was called before (rejected writes, renames of files and
\* of directories included), exists and isdir answer from the directory
\* cache, and the size check from the cached total, what a VirtualFS built
\* anew over the same store answers
C34_CachedAsFresh ==
    \A f \in FsIds, p \in DirPaths :
       /\ exists(fs[f], p) = exists(Fresh(fs[f]), p)
       /\ isdir(fs[f], p) = isdir(Fresh(fs[f]), p)
       /\ \A n \in 0..MaxLen :
             _check_size_limit(fs[f], p, n).err
                 = _check_size_limit(Fresh(fs[f]), p, n).err

\* k names src_norm or something below it
InSubtree(k, src_norm) == k = src_norm \/ Under(k, src_norm)

\* g is f with the entries at or under src_norm carried to dst_norm, values
\* kept, and with every other entry as it was
CarriedOver(f, g, src_norm, dst_norm) ==
    /\ \A k \in DOMAIN f :
          LET k2 == IF InSubtree(k, src_norm)
                    THEN Moved(k, src_norm, dst_norm) ELSE k
          IN k2 \in DOMAIN g /\ g[k2] = f[k]
    /\ \A k \in DOMAIN g :
          \/ k \in DOMAIN f /\ ~InSubtree(k, src_norm)
          \/ \E m \in DOMAIN f :
                InSubtree(m, src_norm) /\ Moved(m, src_norm, dst_norm) = k

\* C35: a successful rename of a directory carries the files and the
\* directory entries at or under src to the same place under dst with
\* their contents and metadata, leaves every other file and entry as it
\* was, and leaves no src behind
C35_DirRenameMovesSubtreeOnly ==
    [][\A sd \in DirMoves :
          LET src_norm == normalize_path(resolve_path(fs[1], sd[1]))
              dst_norm == normalize_path(resolve_path(fs[1], sd[2]))
          IN (/\ VfsRename(1, sd[1], sd[2])
              /\ evt'.err = "ok"
              /\ ~isfile(fs[1], sd[1]))
             => /\ CarriedOver(fs[1].files, fs'[1].files, src_norm, dst_norm)
                /\ CarriedOver(fs[1].meta, fs'[1].meta, src_norm, dst_norm)
                /\ ~exists(fs'[1], sd[1])]_vars

\* the working directory is an absolute path in normal form
CwdNormal(v) == getcwd(v).abs /\ normpath(getcwd(v)) = getcwd(v)

\* the paths chdir is called with in SpecTree
ChdirPaths == {pSlashD, Root}

\* C40: getcwd() always returns a normalized absolute path beginning with
\* "/", and chdir to a path that does not exist or that is a file raises
\* FileNotFoundError and leaves the working directory as it was
C40_CwdAbsoluteChdirChecked ==
    /\ [](\A f \in FsIds : CwdNormal(fs[f]))
    /\ [][\A p \in ChdirPaths :
             (/\ Chdir(1, p)
              /\ ~exists(fs[1], p) \/ isfile(fs[1], p))
             => /\ evt'.err = "FileNotFoundError"
                /\ getcwd(fs'[1]) = getcwd(fs[1])]_vars

\* ------------------------------------------------------------------------
\* The re-entrancy flags (patching/core.py) and the calls that set them
\* ------------------------------------------------------------------------
\* flag.set(True) in the task's context
FlagSet(flag, t) == [flag EXCEPT ![t] = TRUE]

\* what flag.set(False) in place of reset(token) would do
FlagClear(flag, t, token) == [flag EXCEPT ![t] = FALSE]

\* flag.reset(token): back to the value the token recorded
FlagReset(flag, t, token) == [flag EXCEPT ![t] = token]

\* the calls that set a flag: "probe" is _is_safe_system_path, "open" is
\* _vfs_open around fs.open, "os_open" is _vfs_os_open around allocate,
\* "allocate" is allocate around fs.write, "close" is close around fs.write
GuardedCalls == {"probe", "open", "os_open", "allocate", "close"}

\* the innermost guarded call of task t
TopCall(fr) == IF fr = <<>> THEN "none" ELSE Last(fr).fn

\* where the code makes the call: the probe is made by a wrapper before it
\* routes and inside the except clause of _vfs_open and _vfs_os_open, the
\* write of allocate inside _vfs_os_open's try; _vfs_open and _vfs_os_open
\* go to the original when _in_vfs_operation is set
CanStart(t, fn) ==
    CASE fn = "probe" -> TopCall(frames[t]) \in {"none", "open", "os_open"}
      [] fn = "allocate" -> TopCall(frames[t]) = "os_open"
      [] fn = "close" -> TopCall(frames[t]) = "none"
      [] OTHER -> TopCall(frames[t]) = "none" /\ ~in_vfs_operation[t]

\* the paths the probe is asked about, as str and as bytes
ProbePaths ==
    {P(TRUE, c) : c \in {<<"usr">>, <<"usr", "x">>, <<"usrx">>,
                         <<"usrx", "x">>, <<"f">>, <<"f", "..", "usr">>}}

\* token = flag.set(True), on entry to the try block
GuardEnter(t, fn, p, ptype) ==
    /\ CanStart(t, fn)
    /\ frames' = [frames EXCEPT ![t] =
           Append(@, [fn |-> fn, path |-> p, ptype |-> ptype,
                      token |-> IF fn = "probe" THEN in_safe_path_check[t]
                                ELSE in_vfs_operation[t],
                      safe |-> in_safe_path_check[t],
                      vfs |-> in_vfs_operation[t]])]
    /\ IF fn = "probe"
       THEN /\ in_safe_path_check' = FlagSet(in_safe_path_check, t)
            /\ UNCHANGED in_vfs_operation
       ELSE /\ in_vfs_operation' = FlagSet(in_vfs_operation, t)
            /\ UNCHANGED in_safe_path_check
    /\ evt' = Event("guard_enter", t, NoFs, "ok", p, <<fn, ptype>>)
    /\ UNCHANGED <<isoVars, instVars, commitVars, fs, clock, host, ctxVars,
                   fdVars>>

\* the finally clause, the body having returned or raised: flag.reset(token).
\* The probe then answers (or raises TypeError for bytes)
GuardExit(t, raised) ==
    /\ frames[t] # <<>>
    /\ \E fr \in {Last(frames[t])} :
          /\ frames' = [frames EXCEPT ![t] = Front(@)]
          /\ IF fr.fn = "probe"
             THEN /\ in_safe_path_check' =
                        FlagReset(in_safe_path_check, t, fr.token)
                  /\ UNCHANGED in_vfs_operation
             ELSE /\ in_vfs_operation' =
                        FlagReset(in_vfs_operation, t, fr.token)
                  /\ UNCHANGED in_safe_path_check
          /\ evt' = Event("guard_exit", t, NoFs,
                          IF fr.fn = "probe"
                          THEN (IF raised THEN "no"
                                ELSE _is_safe_system_path(NoFs, Root, fr.path,
                                                          fr.ptype))
                          ELSE IF raised THEN "raised" ELSE "ok",
                          fr.path, <<fr.fn, fr.ptype>>)
    /\ UNCHANGED <<isoVars, instVars, commitVars, fs, clock, host, ctxVars,
                   fdVars>>

InitGuard == InitWith({NoSize})

NextGuard ==
    \/ \E t \in Tasks, p \in ProbePaths, ptype \in {"str", "bytes"} :
          GuardEnter(t, "probe", p, ptype)
    \/ \E t \in Tasks, fn \in GuardedCalls \ {"probe"} :
          GuardEnter(t, fn, pSlashF, "str")
    \/ \E t \in Tasks, raised \in BOOLEAN : GuardExit(t, raised)

SpecGuard == InitGuard /\ [][NextGuard]_vars

\* C31: when a call that sets a re-entrancy flag returns or raises, both
\* flags of the task have the values they had before the call, and both are
\* false in a task that has no such call in progress
C31_FlagsRestored ==
    /\ [](\A t \in Tasks :
             frames[t] = <<>>
                => ~in_safe_path_check[t] /\ ~in_vfs_operation[t])
    /\ [][\A t \in Tasks :
             Len(frames'[t]) < Len(frames[t])
                => /\ in_safe_path_check'[t] = Last(frames[t]).safe
                   /\ in_vfs_operation'[t] = Last(frames[t]).vfs]_vars

\* C31: the write of allocate has raised inside _vfs_os_open's try block
\* and _in_vfs_operation is back to True, the value _vfs_os_open had set
C31_Witness ==
    /\ evt.op = "guard_exit" /\ evt.data[1] = "allocate"
    /\ evt.err = "raised"
    /\ TopCall(frames[evt.t]) = "os_open"
    /\ in_vfs_operation[evt.t]
    /\ ~in_safe_path_check[evt.t]

\* C38: a path is classified safe only if its resolved form is a safe root
\* or lies inside one component by component; a path whose text merely
\* begins with the text of a root is not classified safe
C38_SafeOnlyInsideRoot ==
    (evt.op = "guard_exit" /\ evt.data[1] = "probe" /\ evt.err = "yes")
       => \E sp \in _SAFE_SYSTEM_PATHS :
             StartsWithComps(NormComps(TRUE, evt.path.comps, <<>>), sp)

\* ------------------------------------------------------------------------
\* os.open with every kind of flag, on a capped VirtualFS
\* ------------------------------------------------------------------------
AppendWr == {"O_WRONLY", "O_APPEND"}
TruncRdWr == {"O_RDWR", "O_TRUNC"}
AppendTruncWr == {"O_WRONLY", "O_APPEND", "O_TRUNC"}
OpenFlags == {RdOnly, CreatWr, AppendWr, TruncRdWr, AppendTruncWr}

\* one task on a VirtualFS with a cap of one unit: the file /d/f is
\* written and the working directory chosen, then up to MaxFds descriptors
\* are opened, one at a time, with each kind of flags, written and closed
InitOpen == InitWith({1})

NextOpen ==
    \/ scopes[1] = <<>> /\ Patch(1, 1)
    \/ \E c \in Contents : fdlog = <<>> /\ VfsWrite(1, pSlashDF, c, "w")
    \/ fdlog = <<>> /\ Chdir(1, pSlashD)
    \/ \E p \in {pF, pSlashDF}, flags \in OpenFlags :
          table = EmptyFn /\ OsOpen(1, p, flags)
    \/ AllocEnter(1)
    \/ AllocExit(1)
    \/ \E fd \in Owned(1) : OsWrite(1, fd, <<1>>)
    \/ \E fd \in Returned : OsClose(1, fd)
    \/ ClosePop(1)
    \/ CloseFlush(1)

SpecOpen == InitOpen /\ [][NextOpen]_vars

\* the bytes a descriptor opened on p with these flags starts with: the
\* file's, if p names a file and O_TRUNC is not set
InitialBuffer(v, p, flags) ==
    IF isfile(v, p) /\ "O_TRUNC" \notin flags THEN read(v, p) ELSE <<>>

\* C32: on a successful os.open the buffer holds the file's current bytes
\* if the file exists and O_TRUNC is unset and is empty otherwise, and the
\* position is the end of the buffer if O_APPEND is set and 0 otherwise
C32_OpenLoadsFile ==
    [][\A p \in {pF, pSlashDF}, flags \in OpenFlags :
          (/\ current[1] # NoFs
           /\ OsOpen(1, p, flags)
           /\ evt'.op = "open_begin")
          => /\ loc'[1].vfd.buffer = InitialBuffer(fs[1], p, flags)
             /\ loc'[1].vfd.pos =
                   IF "O_APPEND" \in flags
                   THEN Len(InitialBuffer(fs[1], p, flags)) ELSE 0]_vars

\* C37: when the write that a close makes to the backend fails, the error
\* reaches the caller of close, the fd is gone from the table, so that a
\* later write or close on it fails with EBADF, and no file of the backend
\* has other bytes than before the close
C37_FailedCloseStillCloses ==
    [][/\ (CloseFlush(1) /\ evt'.err # "ok")
          => /\ evt'.op = "close"
             /\ evt'.err = "SizeLimit"
             /\ evt'.fd \notin DOMAIN table'
             /\ \A f \in FsIds : fs'[f].files = fs[f].files
       /\ \A fd \in Returned :
             (/\ LogOf(fd).pops > 0
              /\ pc[1] = "idle"
              /\ OsWrite(1, fd, <<1>>) \/ OsClose(1, fd))
             => evt'.err = "EBADF"]_vars

\* C37: a close has raised the size-limit error, the fd is no longer in the
\* table, and the file still holds other bytes than the fd's buffer
C37_Witness ==
    /\ evt.op = "close"
    /\ evt.err = "SizeLimit"
    /\ evt.fd \notin DOMAIN table
    /\ LogOf(evt.fd).writable
    /\ readErr(fs[evt.f], evt.path) = "ok"
    /\ read(fs[evt.f], evt.path) # evt.data

\* two tasks that open, write and close descriptors on the one path "f" of
\* an uncapped VirtualFS, under the working directory chosen before the
\* first open
InitTwoFds == InitWith({NoSize})

NextTwoFds ==
    \/ \E t \in Tasks : scopes[t] = <<>> /\ Patch(t, 1)
    \/ fdlog = <<>> /\ VfsMkdir(1, pSlashD)
    \/ fdlog = <<>> /\ Chdir(1, pSlashD)
    \/ \E t \in Tasks : OsOpen(t, pF, CreatWr)
    \/ \E t \in Tasks : AllocEnter(t)
    \/ \E t \in Tasks : AllocExit(t)
    \/ \E t \in Tasks : \E fd \in Owned(t) : OsWrite(t, fd, <<t>>)
    \/ \E t \in Tasks, fd \in Returned : OsClose(t, fd)
    \/ \E t \in Tasks : ClosePop(t)
    \/ \E t \in Tasks : CloseFlush(t)

SpecTwoFds == InitTwoFds /\ [][NextTwoFds]_vars

\* fd was opened for writing on the path of the fd just closed, and its
\* close has written to the backend before
ClosedEarlier(fd) ==
    /\ fd # evt.fd
    /\ LogOf(fd).writable
    /\ LogOf(fd).opath = LogOf(evt.fd).opath
    /\ LogOf(fd).ocwd = LogOf(evt.fd).ocwd
    /\ LogOf(fd).flushes > 0

\* C36: when two writable fds were open on one path and the second of them
\* has just been closed, the file at the path holds the whole buffer of
\* that fd, whatever was written through the fd closed first
C36_LastCloseWins ==
    (/\ evt.op = "close"
     /\ evt.err = "ok"
     /\ evt.f # NoFs
     /\ LogOf(evt.fd).writable
     /\ table = EmptyFn
     /\ \A t \in Tasks : pc[t] = "idle"
     /\ \E fd \in Returned : ClosedEarlier(fd))
    => /\ readErr(fs[evt.f], LogOf(evt.fd).opath) = "ok"
       /\ read(fs[evt.f], LogOf(evt.fd).opath) = evt.data


\* ------------------------------------------------------------------------
\* The kind of a propagated error (patches.py)
\* ------------------------------------------------------------------------
\* the error of the backend call a wrapper makes for c on v: fs.stat for
\* os.stat, fs.list for os.listdir of a path fs.isdir accepts
BackendErr(v, c) ==
    IF c.prim = "stat" THEN statErr(v, Str(c))
    ELSE IF isdir(v, Str(c)) THEN listErr(v, Str(c)) ELSE "ok"

\* C39: a wrapper that lets an error of the backend through to the caller
\* raises an error of the kind the backend raised: os.stat and os.listdir on
\* a VirtualFS, and os.stat on a backend whose stat() raises a given kind,
\* when the backend call failed and no original was called
C39_ErrorKindKept ==
    [][/\ (/\ evt'.op = "route"
           /\ evt'.f # NoFs
           /\ ~evt'.call.guard
           /\ evt'.call.prim \in {"stat", "listdir"}
           /\ evt'.orig = <<>>
           /\ BackendErr(fs[evt'.f], evt'.call) # "ok")
          => evt'.err = BackendErr(fs[evt'.f], evt'.call)
       /\ (evt'.op = "route_raising" /\ evt'.orig = <<>>)
          => evt'.err = evt'.data[1]]_vars

====
